---- MODULE Spec2Model ----
(***************************************************************************)
(* Incremental two-dimensional pattern matching (kaya3/pattern-match-2d).  *)
(*                                                                         *)
(* The model follows the TypeScript sources: regexes are compiled to a     *)
(* Thompson NFA, then to a DFA by subset construction, then minimised by   *)
(* Hopcroft's algorithm over the Partition structure; a PatternMatcher     *)
(* holds a row DFA and a column DFA; a MatcherState holds the grid, the    *)
(* per-cell DFA states and the per-pattern match indices, and recomputes   *)
(* them after each edit of the grid.                                       *)
(*                                                                         *)
(* JavaScript arrays are modelled as sequences; the element the source     *)
(* calls a[i] is At(a, i), so that every index and ID keeps the value it   *)
(* has in the source (IDs, states and coordinates start at 0).             *)
(***************************************************************************)
EXTENDS Integers, Sequences, FiniteSets, TLC

VARIABLES
    cat,            \* which catalogue (alphabet, patterns) the PatternMatcher was built from
    matcher,        \* state.matcher: the PatternMatcher the state was made by
    width,          \* grid.width
    height,         \* grid.height
    grid,           \* grid.grid: symbol-ID of every cell, by index x + width * y
    rowStates,      \* MatcherState.rowStates
    colStates,      \* MatcherState.colStates
    matchIndices,   \* MatcherState.matchIndices: one SampleableSet per pattern
    onChange,       \* grid.onChange: the listeners in registration order; 0 is the
                    \* recompute the constructor registers, k >= 1 the k-th listener of a client
    edits,          \* number of calls made so far that the model bounds
    last,           \* the last operation: its name, arguments, listener calls and result
    prev,           \* grid, rowStates, colStates and matchIndices when the last operation was called
    heard,          \* what the clients' listeners were called with during the last operation
    thrown,         \* the error the last operation threw; "none" when it returned
    gridAlphabet,   \* grid.alphabet: the IDMap of the symbols
    other,          \* a second MatcherState made by the same matcher, and which of its
                    \* arrays are the very objects the first state holds
    idMap,          \* an IDMap a client holds
    sampleSet,      \* a SampleableSet a client holds
    part,           \* a Partition a client holds
    minimising      \* a call of DFA.minimise in progress: where it stands, its locals, and
                    \* the partition before its last step

\* the objects a client holds besides the state
held == <<idMap, sampleSet, part, minimising>>

vars == <<cat, matcher, width, height, grid, rowStates, colStates, matchIndices, onChange,
          edits, last, prev, heard, thrown, gridAlphabet, other, held>>

----------------------------------------------------------------------------
(* Arrays *)

At(a, i) == a[i + 1]

SetAt(a, i, v) == [a EXCEPT ![i + 1] = v]

Push(a, v) == Append(a, v)

Last(a) == a[Len(a)]

Pop(a) == SubSeq(a, 1, Len(a) - 1)

Min(a, b) == IF a <= b THEN a ELSE b

Max(a, b) == IF a >= b THEN a ELSE b

\* makeArray(n, f): the array f(0), ..., f(n - 1); the callback f is a function of the index
makeArray(n, f) ==
    LET arr[lo \in 0..n, hi \in 0..n] ==
            IF hi <= lo THEN <<>>
            ELSE IF hi = lo + 1 THEN <<f[lo]>>
            ELSE arr[lo, (lo + hi) \div 2] \o arr[(lo + hi) \div 2, hi]
    IN  arr[0, n]

\* emptyArray(n, value): n copies of value
emptyArray(n, v) == makeArray(n, [i \in Nat |-> v])

\* the capacity of the typed array makeUintArray picks for domainSize
UintCapacity(domainSize) ==
    IF domainSize <= 2^8 THEN 2^8 ELSE IF domainSize <= 2^16 THEN 2^16 ELSE 2^32

\* makeUintArray(n, domainSize): n zeroes, in elements wide enough for domainSize
makeUintArray(n, domainSize) == makeArray(n, [i \in Nat |-> 0])

\* the elements of a sequence
\* statements run in order: `first` is evaluated before `rest`, which is the value.
\* The loops below use it to compute what an iteration assigns before the next
\* iteration starts, as the source does.
InOrder(first, rest) == IF first = first THEN rest ELSE rest

Range(a) == {a[i] : i \in 1..Len(a)}

RECURSIVE Flat(_)
\* Array.prototype.flat() of an array of arrays
Flat(as) == IF as = <<>> THEN <<>> ELSE as[1] \o Flat(Tail(as))

RECURSIVE Reverse(_)
Reverse(a) == IF a = <<>> THEN <<>> ELSE Append(Reverse(Tail(a)), a[1])

----------------------------------------------------------------------------
(* ISet: a Uint32Array used as a set of natural numbers.  A 32-bit word is *)
(* modelled by the set of its 1 bits (a subset of 0..31), a bigint by the  *)
(* set of its 1 bits.                                                      *)

WordBits == 32

ISetEmpty(domainSize) == makeArray(((domainSize - 1) \div WordBits) + 1, [i \in Nat |-> {}])

ISetHas(set, x) == (x % WordBits) \in At(set, x \div WordBits)

ISetAdd(set, x) ==
    SetAt(set, x \div WordBits, At(set, x \div WordBits) \cup {x % WordBits})

\* the ISet that ISet.add of every member of `members` (in any order) builds
ISetOfSet(domainSize, members) ==
    makeArray(((domainSize - 1) \div WordBits) + 1, [i \in Nat |->
        {x % WordBits : x \in {y \in members : y \div WordBits = i}}])

\* ISet.of(domainSize, xs)
ISetOf(domainSize, xs) == ISetOfSet(domainSize, {xs[i] : i \in 1..Len(xs)})

ISetAddAll(a, b) ==
    makeArray(Len(a), [i \in Nat |-> IF i < Len(b) THEN At(a, i) \cup At(b, i) ELSE At(a, i)])

RECURSIVE WordToArray(_, _)
\* the loop of ISet.forEach over one word: highest 1 bit first
WordToArray(x, setPart) ==
    IF setPart = {} THEN <<>>
    ELSE LET dx == CHOOSE b \in setPart : \A c \in setPart : c <= b
         IN  <<x + dx>> \o WordToArray(x, setPart \ {dx})

RECURSIVE ISetToArrayFrom(_, _)
ISetToArrayFrom(set, i) ==
    IF i >= Len(set) THEN <<>>
    ELSE WordToArray(i * WordBits, At(set, i)) \o ISetToArrayFrom(set, i + 1)

\* ISet.toArray / ISet.forEach: the members in the order forEach visits them
ISetToArray(set) == ISetToArrayFrom(set, 0)

RECURSIVE ToBigIntSignedFrom(_, _)
\* the loop of toBigInt reading each word as a signed 32-bit number: a word with
\* bit 31 set is negative, and or-ing it in sets every higher bit too
ToBigIntSignedFrom(set, i) ==
    IF i > Len(set) THEN {}
    ELSE {WordBits + b : b \in ToBigIntSignedFrom(set, i + 1)}
         \cup set[i]
         \cup (IF (WordBits - 1) \in set[i] THEN WordBits..(WordBits * (Len(set) + 1)) ELSE {})

\* a toBigInt over an Int32Array
ISetToBigIntSigned(set) == ToBigIntSignedFrom(set, 1)

\* ISet.toBigInt: word i is shifted left by 32 * i bits
ISetToBigInt(set) == UNION {{WordBits * (i - 1) + b : b \in set[i]} : i \in 1..Len(set)}

RECURSIVE ArrayMax1(_)
\* the domainSize ISet.arrayToBigInt computes: the largest x + 1, or 0
ArrayMax1(xs) == IF xs = <<>> THEN 0 ELSE Max(ArrayMax1(Tail(xs)), xs[1] + 1)

\* an arrayToBigInt that takes the largest element, not the largest element
\* plus one, for the domain size: the largest element is left out of the key
ISetArrayToBigIntShort(xs) ==
    IF ArrayMax1(xs) - 1 > 0 THEN ISetToBigInt(ISetOf(ArrayMax1(xs) - 1, xs)) ELSE {}

ISetArrayToBigInt(xs) ==
    IF ArrayMax1(xs) > 0 THEN ISetToBigInt(ISetOf(ArrayMax1(xs), xs)) ELSE {}

----------------------------------------------------------------------------
(* IDMap: insertion-ordered map from values to dense IDs.  The key of a    *)
(* value is computed by the caller with the map's keyFunc.                 *)

IDMapEmpty == [arr |-> <<>>, ids |-> <<>>]

IDMapSize(map) == Len(map.arr)

IDMapHas(map, key) == \E i \in 1..Len(map.ids) : map.ids[i][1] = key

\* ids.get(key); -1 stands for undefined
IDMapLookup(map, key) ==
    IF IDMapHas(map, key)
    THEN (CHOOSE e \in Range(map.ids) : e[1] = key)[2]
    ELSE -1

\* getOrCreateID: the map afterwards
IDMapAdd(map, x, key) ==
    IF IDMapLookup(map, key) = -1
    THEN [arr |-> Push(map.arr, x), ids |-> Push(map.ids, <<key, Len(map.arr)>>)]
    ELSE map

\* getOrCreateID: the ID returned
IDMapGetOrCreateID(map, x, key) ==
    IF IDMapLookup(map, key) = -1 THEN Len(map.arr) ELSE IDMapLookup(map, key)

\* getID: -1 stands for the error thrown for an absent key
IDMapGetID(map, key) == IDMapLookup(map, key)

\* the map after a getID that worked as getOrCreateID does
IDMapAfterGetOrCreateID(map, key) == IDMapAdd(map, key, key)

\* IDMap.getID(x): the map afterwards; getID writes neither arr nor ids
IDMapAfterGetID(map, key) == map

IDMapGetByID(map, id) == At(map.arr, id)

----------------------------------------------------------------------------
(* Regex: the abstract syntax *)

letters(letterIDs) == [kind |-> "LETTERS", letterIDs |-> letterIDs]

wildcard == [kind |-> "WILDCARD"]

concat(children) == [kind |-> "CONCAT", children |-> children]

union(children) == [kind |-> "UNION", children |-> children]

kleeneStar(child) == [kind |-> "KLEENESTAR", child |-> child]

accept(acceptID) == [kind |-> "ACCEPT", accept |-> acceptID]

----------------------------------------------------------------------------
(* NFA: Thompson's construction.  The node list grows as the regex is      *)
(* walked; every operator returns the list afterwards and the ID made.     *)

NFANode(epsilons, lets, nextID) ==
    [epsilons |-> epsilons, letters |-> lets, nextID |-> nextID, acceptSet |-> <<>>]

\* makeNode: the node list afterwards; the new node's ID is Len(nodes)
makeNode(nodes, epsilons, lets, nextID) == Push(nodes, NFANode(epsilons, lets, nextID))

RECURSIVE makeFromRegex(_, _, _, _)
RECURSIVE ConcatLoop(_, _, _, _, _)
RECURSIVE UnionLoop(_, _, _, _, _, _)

makeFromRegex(alphabetSize, nodes, regex, outID) ==
    CASE regex.kind = "LETTERS" ->
            [nodes |-> makeNode(nodes, <<>>, regex.letterIDs, outID), id |-> Len(nodes)]
      [] regex.kind = "WILDCARD" ->
            [nodes |-> makeNode(nodes, <<>>, makeArray(alphabetSize, [i \in Nat |-> i]), outID),
             id |-> Len(nodes)]
      [] regex.kind = "CONCAT" ->
            ConcatLoop(alphabetSize, nodes, regex.children, Len(regex.children) - 1, outID)
      [] regex.kind = "UNION" ->
            UnionLoop(alphabetSize, nodes, regex.children, 0, outID, <<>>)
      [] regex.kind = "KLEENESTAR" ->
            LET childOutID == Len(nodes)
                r == makeFromRegex(alphabetSize, makeNode(nodes, <<outID>>, <<>>, -1),
                                   regex.child, childOutID)
                looped == SetAt(r.nodes, childOutID,
                                [At(r.nodes, childOutID) EXCEPT !.epsilons = Push(@, r.id)])
            IN  [nodes |-> makeNode(looped, <<r.id, outID>>, <<>>, -1), id |-> Len(looped)]
      [] regex.kind = "ACCEPT" ->
            [nodes |-> SetAt(nodes, outID,
                             [At(nodes, outID) EXCEPT !.acceptSet = Push(@, regex.accept)]),
             id |-> outID]

\* case CONCAT: the children from last to first, each one's in-node the next one's out-node
ConcatLoop(alphabetSize, nodes, children, i, outID) ==
    IF i < 0 THEN [nodes |-> nodes, id |-> outID]
    ELSE LET r == makeFromRegex(alphabetSize, nodes, At(children, i), outID)
         IN  InOrder(r, ConcatLoop(alphabetSize, r.nodes, children, i - 1, r.id))

\* case UNION: each child gets a fresh out-node with an epsilon to outID
UnionLoop(alphabetSize, nodes, children, i, outID, epsilons) ==
    IF i >= Len(children)
    THEN [nodes |-> makeNode(nodes, epsilons, <<>>, -1), id |-> Len(nodes)]
    ELSE LET r == makeFromRegex(alphabetSize, makeNode(nodes, <<outID>>, <<>>, -1),
                                At(children, i), Len(nodes))
             pushed == Push(epsilons, r.id)
         IN  InOrder(pushed, UnionLoop(alphabetSize, r.nodes, children, i + 1, outID, pushed))

\* new NFA(alphabetSize, acceptCount, regex)
NFA(alphabetSize, acceptCount, regex) ==
    LET r == makeFromRegex(alphabetSize, makeNode(<<>>, <<>>, <<>>, -1), regex, 0)
    IN  [alphabetSize |-> alphabetSize, acceptCount |-> acceptCount,
         nodes |-> r.nodes, startID |-> r.id]

----------------------------------------------------------------------------
(* NFA.toDFA: subset construction *)

RECURSIVE PushEpsilons(_, _, _, _)
\* the inner loop of getNodeID over the epsilons of one node
PushEpsilons(epsilons, i, nfaState, stack) ==
    IF i >= Len(epsilons) THEN [nfaState |-> nfaState, stack |-> stack]
    ELSE IF ISetHas(nfaState, At(epsilons, i))
         THEN PushEpsilons(epsilons, i + 1, nfaState, stack)
         ELSE PushEpsilons(epsilons, i + 1, ISetAdd(nfaState, At(epsilons, i)),
                           Push(stack, At(epsilons, i)))

RECURSIVE EpsilonClosure(_, _, _)
\* the epsilon closure getNodeID computes by depth-first search
EpsilonClosure(nodes, nfaState, stack) ==
    IF Len(stack) = 0 THEN nfaState
    ELSE LET r == PushEpsilons(At(nodes, Last(stack)).epsilons, 0, nfaState, Pop(stack))
         IN  EpsilonClosure(nodes, r.nfaState, r.stack)

\* a getNodeID that leaves out the epsilon closure
getNodeIDUnclosed(nodes, nfaState) == nfaState

\* getNodeID(nfaState): the closed set; it is then interned in nfaStates
getNodeID(nodes, nfaState) == EpsilonClosure(nodes, nfaState, ISetToArray(nfaState))

\* transitionStates[letterID] after the forEach over the members of one NFA state:
\* the nextID of every member that has the letter
TransitionState(nodes, members, letterID) ==
    ISetOfSet(Len(nodes),
              {At(nodes, members[m]).nextID :
                  m \in {k \in 1..Len(members) : letterID \in Range(At(nodes, members[k]).letters)}})

RECURSIVE CollectAcceptIDs(_, _)
\* acceptIDs after the forEach over the members of one NFA state
CollectAcceptIDs(nodes, members) ==
    IF members = <<>> THEN <<>>
    ELSE At(nodes, members[1]).acceptSet \o CollectAcceptIDs(nodes, Tail(members))

RECURSIVE MapGetNodeID(_, _, _, _, _)
\* transitionStates.map(getNodeID): interns each closed set in turn
MapGetNodeID(nodes, nfaStates, transitionStates, c, transitions) ==
    IF c >= Len(transitionStates) THEN [nfaStates |-> nfaStates, transitions |-> transitions]
    ELSE LET closed == getNodeID(nodes, At(transitionStates, c))
             key == ISetToBigInt(closed)
             interned == IDMapAdd(nfaStates, closed, key)
             pushed == Push(transitions, IDMapGetOrCreateID(nfaStates, closed, key))
         IN  InOrder(<<interned, pushed>>,
                     MapGetNodeID(nodes, interned, transitionStates, c + 1, pushed))

RECURSIVE toDFALoop(_, _, _, _, _)
\* the loop over nfaStates, which grows while it is iterated
toDFALoop(nfa, nfaStateID, nfaStates, acceptSetMap, dfaNodes) ==
    IF nfaStateID >= IDMapSize(nfaStates)
    THEN [alphabetSize |-> nfa.alphabetSize, acceptCount |-> nfa.acceptCount,
          acceptSetMap |-> acceptSetMap, nodes |-> dfaNodes]
    ELSE LET members == ISetToArray(IDMapGetByID(nfaStates, nfaStateID))
             transitionStates ==
                 makeArray(nfa.alphabetSize, [c \in Nat |->
                     TransitionState(nfa.nodes, members, c)])
             acceptIDs == CollectAcceptIDs(nfa.nodes, members)
             r == MapGetNodeID(nfa.nodes, nfaStates, transitionStates, 0, <<>>)
             key == ISetArrayToBigInt(acceptIDs)
             interned == IDMapAdd(acceptSetMap, acceptIDs, key)
             pushed == Push(dfaNodes,
                            [transitions |-> r.transitions,
                             acceptSetID |-> IDMapGetOrCreateID(acceptSetMap, acceptIDs, key),
                             acceptIDs |-> acceptIDs])
         IN  InOrder(<<r, interned, pushed>>,
                     toDFALoop(nfa, nfaStateID + 1, r.nfaStates, interned, pushed))

toDFA(nfa) ==
    LET start == getNodeID(nfa.nodes, ISetOf(Len(nfa.nodes), <<nfa.startID>>))
    IN  toDFALoop(nfa, 0, IDMapAdd(IDMapEmpty, start, ISetToBigInt(start)), IDMapEmpty, <<>>)

----------------------------------------------------------------------------
(* Partition: partition refinement for DFA.minimise.  The subset objects   *)
(* live in `objs`, in order of creation; `subsets`, `unprocessed`, `map`   *)
(* and `sibling` hold references to them (positions in objs, from 0), so   *)
(* that a deleted subset can still be referred to from `unprocessed`.      *)
(* A sibling of -1 stands for undefined.                                   *)

makeSubset(P, start, end, isUnprocessed) ==
    LET subset == [index |-> Len(P.subsets), start |-> start, end |-> end,
                   isUnprocessed |-> isUnprocessed, sibling |-> -1]
        ref == Len(P.objs)
    IN  [P EXCEPT !.objs = Push(@, subset),
                  !.subsets = Push(@, ref),
                  !.unprocessed = IF isUnprocessed THEN Push(@, ref) ELSE @]

\* new Partition(n)
Partition(n) ==
    LET P0 == [arr |-> makeArray(n, [i \in Nat |-> i]), indices |-> makeArray(n, [i \in Nat |-> i]),
               subsets |-> <<>>, unprocessed |-> <<>>, map |-> <<>>, objs |-> <<>>]
    IN  [makeSubset(P0, 0, n, TRUE) EXCEPT !.map = emptyArray(n, 0)]

countSubsets(P) == Len(P.subsets)

\* deleteSubset(subset), for an empty subset
deleteSubset(P, subset) ==
    LET index == At(P.objs, subset).index
        removed == Last(P.subsets)
        popped == [P EXCEPT !.subsets = Pop(@)]
        moved == IF At(P.objs, removed).index # index
                 THEN [popped EXCEPT !.objs = SetAt(@, removed,
                                                    [At(@, removed) EXCEPT !.index = index]),
                                     !.subsets = SetAt(@, index, removed)]
                 ELSE popped
    IN  [moved EXCEPT !.objs = SetAt(@, subset, [At(@, subset) EXCEPT !.isUnprocessed = FALSE])]

\* a pollUnprocessed that returns the subset on top of the stack, flagged or not
pollUnprocessedTop(P) ==
    IF Len(P.unprocessed) = 0 THEN [P |-> P, found |-> FALSE, a |-> <<>>]
    ELSE LET subset == Last(P.unprocessed)
             popped == [P EXCEPT !.unprocessed = Pop(@)]
             obj == At(P.objs, subset)
         IN  [P |-> [popped EXCEPT !.objs = SetAt(@, subset,
                                                [obj EXCEPT !.isUnprocessed = FALSE])],
              found |-> TRUE,
              a |-> SubSeq(P.arr, obj.start + 1, obj.end)]

RECURSIVE pollUnprocessed(_)
\* pollUnprocessed: the partition afterwards and the array returned (found = FALSE
\* stands for undefined)
pollUnprocessed(P) ==
    IF Len(P.unprocessed) = 0 THEN [P |-> P, found |-> FALSE, a |-> <<>>]
    ELSE LET subset == Last(P.unprocessed)
             popped == [P EXCEPT !.unprocessed = Pop(@)]
             obj == At(P.objs, subset)
         IN  IF obj.isUnprocessed
             THEN [P |-> [popped EXCEPT !.objs = SetAt(@, subset,
                                                [obj EXCEPT !.isUnprocessed = FALSE])],
                   found |-> TRUE,
                   a |-> SubSeq(P.arr, obj.start + 1, obj.end)]
             ELSE pollUnprocessed(popped)

getRepresentative(P, x) == At(P.arr, At(P.objs, At(P.map, x)).start)

\* the arguments forEachRepresentative passes to its callback, in order
Representatives(P) ==
    makeArray(Len(P.subsets), [i \in Nat |-> At(P.arr, At(P.objs, At(P.subsets, i)).start)])

\* a moveToSibling that leaves indices[y] as it was
moveToSiblingNoReindex(P, x, subset) ==
    LET sibling == At(P.objs, subset).sibling
        i == At(P.indices, x)
        j == At(P.objs, sibling).start - 1
        y == At(P.arr, j)
    IN  [P EXCEPT !.objs = SetAt(SetAt(@, sibling, [At(@, sibling) EXCEPT !.start = j]),
                                 subset, [At(@, subset) EXCEPT !.end = j]),
                  !.arr = SetAt(SetAt(@, i, y), j, x),
                  !.indices = SetAt(@, x, j),
                  !.map = SetAt(@, x, sibling)]

\* moveToSibling(x, subset)
moveToSibling(P, x, subset) ==
    LET sibling == At(P.objs, subset).sibling
        i == At(P.indices, x)
        j == At(P.objs, sibling).start - 1
        y == At(P.arr, j)
    IN  [P EXCEPT !.objs = SetAt(SetAt(@, sibling, [At(@, sibling) EXCEPT !.start = j]),
                                 subset, [At(@, subset) EXCEPT !.end = j]),
                  !.arr = SetAt(SetAt(@, i, y), j, x),
                  !.indices = SetAt(SetAt(@, y, i), x, j),
                  !.map = SetAt(@, x, sibling)]

RECURSIVE RefineMoveFirst(_, _, _)
\* a first loop of refine that stops after the first member of the set
RefineMoveFirst(P, members, splits) ==
    IF members = <<>> \/ splits # <<>> THEN [P |-> P, splits |-> splits]
    ELSE LET x == members[1]
             subset == At(P.map, x)
             obj == At(P.objs, subset)
             made == makeSubset(P, obj.end, obj.end, obj.isUnprocessed)
             withSibling == [made EXCEPT !.objs = SetAt(@, subset,
                                            [At(@, subset) EXCEPT !.sibling = Len(P.objs)])]
             moved == IF obj.sibling = -1 THEN moveToSibling(withSibling, x, subset)
                      ELSE moveToSibling(P, x, subset)
             pushed == IF obj.sibling = -1 THEN Push(splits, subset) ELSE splits
         IN  InOrder(<<moved, pushed>>, RefineMoveFirst(moved, Tail(members), pushed))

RECURSIVE RefineMove(_, _, _)
\* the first loop of refine: the forEach over the members of the set
RefineMove(P, members, splits) ==
    IF members = <<>> THEN [P |-> P, splits |-> splits]
    ELSE LET x == members[1]
             subset == At(P.map, x)
             obj == At(P.objs, subset)
             made == makeSubset(P, obj.end, obj.end, obj.isUnprocessed)
             withSibling == [made EXCEPT !.objs = SetAt(@, subset,
                                            [At(@, subset) EXCEPT !.sibling = Len(P.objs)])]
             moved == IF obj.sibling = -1 THEN moveToSibling(withSibling, x, subset)
                      ELSE moveToSibling(P, x, subset)
             pushed == IF obj.sibling = -1 THEN Push(splits, subset) ELSE splits
         IN  InOrder(<<moved, pushed>>, RefineMove(moved, Tail(members), pushed))

\* an iteration of the second loop of refine that marks the larger part
RefineSplitLarger(P, subset) ==
    LET obj == At(P.objs, subset)
        sibling == At(P.objs, obj.sibling)
        min == IF obj.end - obj.start >= sibling.end - sibling.start
               THEN subset ELSE obj.sibling
        marked == IF obj.start = obj.end THEN deleteSubset(P, subset)
                  ELSE IF ~obj.isUnprocessed
                  THEN [P EXCEPT !.objs = SetAt(@, min, [At(@, min) EXCEPT !.isUnprocessed = TRUE]),
                                 !.unprocessed = Push(@, min)]
                  ELSE P
    IN  [marked EXCEPT !.objs = SetAt(@, subset, [At(@, subset) EXCEPT !.sibling = -1])]

\* one iteration of the second loop of refine, for a subset that was split
RefineSplit(P, subset) ==
    LET obj == At(P.objs, subset)
        sibling == At(P.objs, obj.sibling)
        min == IF obj.end - obj.start <= sibling.end - sibling.start
               THEN subset ELSE obj.sibling
        marked == IF obj.start = obj.end THEN deleteSubset(P, subset)
                  ELSE IF ~obj.isUnprocessed
                  THEN [P EXCEPT !.objs = SetAt(@, min, [At(@, min) EXCEPT !.isUnprocessed = TRUE]),
                                 !.unprocessed = Push(@, min)]
                  ELSE P
    IN  [marked EXCEPT !.objs = SetAt(@, subset, [At(@, subset) EXCEPT !.sibling = -1])]

RECURSIVE RefineSplits(_, _)
RefineSplits(P, splits) ==
    IF splits = <<>> THEN P
    ELSE LET split == RefineSplit(P, splits[1]) IN InOrder(split, RefineSplits(split, Tail(splits)))

\* refine(set)
refine(P, set) ==
    LET r == RefineMove(P, ISetToArray(set), <<>>)
    IN  RefineSplits(r.P, r.splits)

----------------------------------------------------------------------------
(* DFA *)

DFASize(dfa) == Len(dfa.nodes)

\* a go that answers -1 for an argument out of range instead of throwing
goSentinel(dfa, state, letterID) ==
    IF state >= 0 /\ state < Len(dfa.nodes)
    THEN [ret |-> <<IF letterID >= 0 /\ letterID < Len(At(dfa.nodes, state).transitions)
                    THEN At(At(dfa.nodes, state).transitions, letterID) ELSE -1>>,
          error |-> "none"]
    ELSE [ret |-> <<-1>>, error |-> "none"]

\* go(state, letterID) as a call: the value returned, or the error thrown
goCall(dfa, state, letterID) ==
    IF state >= 0 /\ state < Len(dfa.nodes) /\ letterID >= 0 /\ letterID < dfa.alphabetSize
    THEN [ret |-> <<At(At(dfa.nodes, state).transitions, letterID)>>, error |-> "none"]
    ELSE [ret |-> <<>>, error |-> "Error"]

\* go(state, letterID); -1 stands for the error thrown for an argument out of range
go(dfa, state, letterID) ==
    IF state >= 0 /\ state < Len(dfa.nodes) /\ letterID >= 0 /\ letterID < dfa.alphabetSize
    THEN At(At(dfa.nodes, state).transitions, letterID)
    ELSE -1

getAcceptIDs(dfa, state) == At(dfa.nodes, state).acceptIDs

getAcceptSetID(dfa, state) == At(dfa.nodes, state).acceptSetID

\* computeAcceptingStates: for each acceptID the ISet of the node IDs which accept it
computeAcceptingStates(dfa) ==
    LET n == Len(dfa.nodes)
    IN  makeArray(dfa.acceptCount, [acceptID \in Nat |->
            ISetOfSet(n, {id \in 0..(n - 1) : acceptID \in Range(At(dfa.nodes, id).acceptIDs)})])

\* inverseTransitions as the loops of minimise fill it: entry c * n + t is the
\* ISet of the nodes whose transition by letter c goes to t
inverseTransitions(dfa) ==
    LET n == Len(dfa.nodes)
    IN  makeArray(dfa.alphabetSize * n, [k \in Nat |->
            ISetOfSet(n, {id \in 0..(n - 1) :
                             At(At(dfa.nodes, id).transitions, k \div n) = k % n})])

RECURSIVE RefineAll(_, _)
\* for(const d of this.computeAcceptingStates()) { partition.refine(d); }
RefineAll(P, sets) ==
    IF sets = <<>> THEN P
    ELSE LET rest(refined) == InOrder(refined, RefineAll(refined, Tail(sets)))
         IN  rest(refine(P, sets[1]))

\* x after `for(const id of a) ISet.addAll(x, inverseTransitions[c * n + id])`,
\* x being empty before: word by word, the union over the members of a
PreimageOf(inv, n, c, a) ==
    makeArray(Len(ISetEmpty(n)), [i \in Nat |->
        UNION {At(At(inv, c * n + a[m]), i) : m \in 1..Len(a)}])

RECURSIVE LetterLoopAlmostFull(_, _, _, _, _)
\* a loop over the letters whose shortcut fires one subset early
LetterLoopAlmostFull(dfa, inv, P, a, c) ==
    IF c >= dfa.alphabetSize THEN [P |-> P, full |-> FALSE]
    ELSE LET n == Len(dfa.nodes)
             rest(refined) == IF countSubsets(refined) >= n - 1 THEN [P |-> refined, full |-> TRUE]
                              ELSE LetterLoopAlmostFull(dfa, inv, refined, a, c + 1)
         IN  rest(refine(P, PreimageOf(inv, n, c, a)))

RECURSIVE LetterLoop(_, _, _, _, _)
\* the loop over the letters for one polled subset `a`; full = TRUE when the
\* shortcut fires (the partition has n subsets)
LetterLoop(dfa, inv, P, a, c) ==
    IF c >= dfa.alphabetSize THEN [P |-> P, full |-> FALSE]
    ELSE LET n == Len(dfa.nodes)
             rest(refined) == IF countSubsets(refined) = n THEN [P |-> refined, full |-> TRUE]
                              ELSE LetterLoop(dfa, inv, refined, a, c + 1)
         IN  rest(refine(P, PreimageOf(inv, n, c, a)))

RECURSIVE WorklistLoop(_, _, _)
\* the end of one round of the while(true) loop: return by the shortcut, or go round again
WorklistNext(dfa, inv, r) == IF r.full THEN r ELSE WorklistLoop(dfa, inv, r.P)

\* a while(true) loop that breaks after its first pollUnprocessed
WorklistStepOnce(dfa, inv, polled) == [P |-> polled.P, full |-> FALSE]

\* one round of the while(true) loop after pollUnprocessed: break when nothing
\* is left unprocessed
WorklistStep(dfa, inv, polled) ==
    IF ~polled.found THEN [P |-> polled.P, full |-> FALSE]
    ELSE WorklistNext(dfa, inv, LetterLoop(dfa, inv, polled.P, polled.a, 0))

\* the while(true) loop of minimise
WorklistLoop(dfa, inv, P) == WorklistStep(dfa, inv, pollUnprocessed(P))

\* the while(true) loop of minimise entered with inverseTransitions and the
\* partition refined by the accepting states
minimiseFrom(dfa, inv, partition) ==
    InOrder(inv, InOrder(partition, WorklistLoop(dfa, inv, partition)))

\* the partition minimise ends with, and whether it ended by the shortcut
minimisePartition(dfa) ==
    minimiseFrom(dfa, inverseTransitions(dfa),
                 RefineAll(Partition(Len(dfa.nodes)), computeAcceptingStates(dfa)))

RECURSIVE AddReps(_, _, _)
\* reps after getOrCreateID of each element of xs; the key of x is getRepresentative(x)
AddReps(P, reps, xs) ==
    IF xs = <<>> THEN reps
    ELSE LET rest(added) == InOrder(added, AddReps(P, added, Tail(xs)))
         IN  rest(IDMapAdd(reps, xs[1], getRepresentative(P, xs[1])))

\* a quotient whose states are numbered in the order of forEachRepresentative alone
quotientNoStart(dfa, P) ==
    LET repNodes(reps) ==
            [alphabetSize |-> dfa.alphabetSize, acceptCount |-> dfa.acceptCount,
             acceptSetMap |-> dfa.acceptSetMap,
             nodes |-> makeArray(Len(reps.arr), [i \in Nat |->
                          LET node == At(dfa.nodes, At(reps.arr, i))
                          IN  [transitions |->
                                   makeArray(Len(node.transitions), [c \in Nat |->
                                       IDMapGetID(reps, getRepresentative(P, At(node.transitions, c)))]),
                               acceptSetID |-> node.acceptSetID,
                               acceptIDs |-> node.acceptIDs]])]
    IN  repNodes(AddReps(P, IDMapEmpty, Representatives(P)))

\* a quotient that keeps the transitions of the representatives as they were,
\* without renumbering their targets
quotientOldTargets(dfa, P) ==
    LET repNodes(reps) ==
            [alphabetSize |-> dfa.alphabetSize, acceptCount |-> dfa.acceptCount,
             acceptSetMap |-> dfa.acceptSetMap,
             nodes |-> makeArray(Len(reps.arr), [i \in Nat |->
                          LET node == At(dfa.nodes, At(reps.arr, i))
                          IN  [transitions |-> node.transitions,
                               acceptSetID |-> node.acceptSetID,
                               acceptIDs |-> node.acceptIDs]])]
    IN  repNodes(AddReps(P, IDMapEmpty, <<0>> \o Representatives(P)))

\* the quotient DFA minimise builds from the final partition
quotient(dfa, P) ==
    LET repNodes(reps) ==
            [alphabetSize |-> dfa.alphabetSize, acceptCount |-> dfa.acceptCount,
             acceptSetMap |-> dfa.acceptSetMap,
             nodes |-> makeArray(Len(reps.arr), [i \in Nat |->
                          LET node == At(dfa.nodes, At(reps.arr, i))
                          IN  [transitions |->
                                   makeArray(Len(node.transitions), [c \in Nat |->
                                       IDMapGetID(reps, getRepresentative(P, At(node.transitions, c)))]),
                               acceptSetID |-> node.acceptSetID,
                               acceptIDs |-> node.acceptIDs]])]
    IN  repNodes(AddReps(P, IDMapEmpty, <<0>> \o Representatives(P)))

\* what minimise returns for the outcome r of the refinement: this DFA when the
\* shortcut fired, else the quotient
minimiseResult(dfa, r) == InOrder(r, IF r.full THEN dfa ELSE quotient(dfa, r.P))

\* minimise()
minimise(dfa) == InOrder(dfa, minimiseResult(dfa, minimisePartition(dfa)))

\* Regex.compile(alphabetSize, acceptCount, regex)
compile(alphabetSize, acceptCount, regex) ==
    InOrder(regex, minimise(toDFA(NFA(alphabetSize, acceptCount, regex))))

----------------------------------------------------------------------------
(* Pattern: a rectangle of symbol-IDs; -1 is the wildcard *)

RECURSIVE PatternScan(_, _, _, _, _)
\* the loops of the Pattern constructor over y and x; acc holds vectorData and
\* the bounding box so far
PatternScan(w, h, rasterData, i, acc) ==
    IF i >= w * h THEN acc
    ELSE LET x == i % w
             y == i \div w
             c == At(rasterData, x + w * y)
             added == IF c >= 0
                      THEN [vectorData |-> acc.vectorData \o <<x, y, c>>,
                            minX |-> Min(acc.minX, x), minY |-> Min(acc.minY, y),
                            maxX |-> Max(acc.maxX, x + 1), maxY |-> Max(acc.maxY, y + 1)]
                      ELSE acc
         IN  InOrder(added, PatternScan(w, h, rasterData, i + 1, added))

\* new Pattern(width, height, rasterData)
Pattern(w, h, rasterData) ==
    LET r == PatternScan(w, h, rasterData, 0,
                         [vectorData |-> <<>>, minX |-> w, minY |-> h, maxX |-> 0, maxY |-> 0])
    IN  [width |-> w, height |-> h, rasterData |-> rasterData,
         vectorData |-> r.vectorData,
         minX |-> Min(r.minX, r.maxX), minY |-> Min(r.minY, r.maxY),
         maxX |-> r.maxX, maxY |-> r.maxY]

\* pattern.rows(): the rows as (width * 1) patterns
rows(pattern) ==
    makeArray(pattern.height, [y \in Nat |->
        Pattern(pattern.width, 1,
                SubSeq(pattern.rasterData, y * pattern.width + 1, (y + 1) * pattern.width))])

\* Pattern.key: the string `${width}:${height}:${rasterData.join(',')}`, which
\* lists the width, the height and the cells
PatternKey(pattern) == <<pattern.width, pattern.height>> \o pattern.rasterData

RECURSIVE IDMapOfWithKey(_, _, _)
\* IDMap.ofWithKey(iterable, Pattern.key), starting from `map`
IDMapOfWithKey(map, xs, i) ==
    IF i >= Len(xs) THEN map
    ELSE LET added == IDMapAdd(map, At(xs, i), PatternKey(At(xs, i)))
         IN  InOrder(added, IDMapOfWithKey(added, xs, i + 1))

----------------------------------------------------------------------------
(* PatternMatcher *)

\* a row regex whose cells are not reversed: the scan runs right to left, so it
\* reads each row pattern backwards
RowRegexOfForward(row, rowID) ==
    LET atom(i) == IF At(row.rasterData, i) < 0 THEN wildcard
                   ELSE letters(<<At(row.rasterData, i)>>)
    IN  concat(<<concat(makeArray(Len(row.rasterData), [i \in Nat |-> atom(i)])), accept(rowID)>>)

\* the regex for one row pattern: its cells in reverse, then accept(rowID)
RowRegexOf(row, rowID) ==
    LET atom(i) == IF At(row.rasterData, i) < 0 THEN wildcard
                   ELSE letters(<<At(row.rasterData, i)>>)
    IN  concat(<<concat(Reverse(makeArray(Len(row.rasterData), [i \in Nat |-> atom(i)]))), accept(rowID)>>)

\* a row regex without the leading wildcard star: a row pattern is found only
\* where the scan starts
rowRegexAnchored(rowPatterns) ==
    LET child(rowID) == RowRegexOf(IDMapGetByID(rowPatterns, rowID), rowID)
    IN  union(makeArray(IDMapSize(rowPatterns), [i \in Nat |-> child(i)]))

rowRegex(rowPatterns) ==
    LET child(rowID) == RowRegexOf(IDMapGetByID(rowPatterns, rowID), rowID)
    IN  concat(<<kleeneStar(wildcard), union(makeArray(IDMapSize(rowPatterns), [i \in Nat |-> child(i)]))>>)

RECURSIVE PushAccepting(_, _, _, _)
\* for(const x of xs) acceptingSets[x].push(id)
PushAccepting(acceptingSets, xs, i, id) ==
    IF i >= Len(xs) THEN acceptingSets
    ELSE LET pushed == SetAt(acceptingSets, At(xs, i), Push(At(acceptingSets, At(xs, i)), id))
         IN  InOrder(pushed, PushAccepting(pushed, xs, i + 1, id))

RECURSIVE AcceptingSetsLoop(_, _, _)
AcceptingSetsLoop(acceptSetMap, id, acceptingSets) ==
    IF id >= IDMapSize(acceptSetMap) THEN acceptingSets
    ELSE LET pushed == PushAccepting(acceptingSets, IDMapGetByID(acceptSetMap, id), 0, id)
         IN  InOrder(pushed, AcceptingSetsLoop(acceptSetMap, id + 1, pushed))

\* acceptingSets: for each row ID, the accept sets of rowDFA that contain it
acceptingSets(rowDFA, numRows) ==
    AcceptingSetsLoop(rowDFA.acceptSetMap, 0, emptyArray(numRows, <<>>))

\* the regex for one pattern: its rows' accepting sets in reverse, then accept(patternID)
ColRegexOf(pattern, patternID, rowPatterns, accSets) ==
    LET atom(j) == letters(At(accSets,
                              IDMapGetID(rowPatterns, PatternKey(At(rows(pattern), j)))))
    IN  concat(<<concat(Reverse(makeArray(pattern.height, [i \in Nat |-> atom(i)]))), accept(patternID)>>)

colRegex(patterns, rowPatterns, accSets) ==
    LET child(patternID) == ColRegexOf(IDMapGetByID(patterns, patternID), patternID,
                                       rowPatterns, accSets)
    IN  concat(<<kleeneStar(wildcard), union(makeArray(IDMapSize(patterns), [i \in Nat |-> child(i)]))>>)

\* a diff table whose entries are in the reverse of the order they have in p
acceptSetDiffsReversed(acceptSetMap, numPatterns) ==
    LET k == IDMapSize(acceptSetMap)
    IN  makeArray(k * k, [i \in Nat |->
            LET q == IDMapGetByID(acceptSetMap, i \div k)
                p == IDMapGetByID(acceptSetMap, i % k)
                qSet == ISetOf(numPatterns, q)
            IN  Reverse(SelectSeq(p, LAMBDA x : ~ISetHas(qSet, x)))])

\* a table that holds, for each q, then each p, the members of q that are not in p
acceptSetDiffsOfQ(acceptSetMap, numPatterns) ==
    LET k == IDMapSize(acceptSetMap)
    IN  makeArray(k * k, [i \in Nat |->
            LET q == IDMapGetByID(acceptSetMap, i \div k)
                p == IDMapGetByID(acceptSetMap, i % k)
                pSet == ISetOf(numPatterns, p)
            IN  SelectSeq(q, LAMBDA x : ~ISetHas(pSet, x))])

\* acceptSetDiffs: for each q, then each p, the members of p that are not in q
acceptSetDiffs(acceptSetMap, numPatterns) ==
    LET k == IDMapSize(acceptSetMap)
    IN  makeArray(k * k, [i \in Nat |->
            LET q == IDMapGetByID(acceptSetMap, i \div k)
                p == IDMapGetByID(acceptSetMap, i % k)
                qSet == ISetOf(numPatterns, q)
            IN  SelectSeq(p, LAMBDA x : ~ISetHas(qSet, x))])

\* the end of the constructor: the fields, with acceptSetDiffs from colDFA
PatternMatcherWithColDFA(alphabetSize, patterns, rowPatterns, rowDFA, colDFA) ==
    InOrder(colDFA,
        [alphabetSize |-> alphabetSize, numPatterns |-> IDMapSize(patterns),
         patterns |-> patterns.arr, rowPatterns |-> rowPatterns.arr,
         rowDFA |-> rowDFA, colDFA |-> colDFA,
         acceptSetMapSize |-> IDMapSize(colDFA.acceptSetMap),
         acceptSetDiffs |-> acceptSetDiffs(colDFA.acceptSetMap, IDMapSize(patterns))])

\* the constructor from acceptingSets on: colRegex, then colDFA
PatternMatcherWithAcceptingSets(alphabetSize, patterns, rowPatterns, rowDFA, accSets) ==
    InOrder(accSets,
        PatternMatcherWithColDFA(alphabetSize, patterns, rowPatterns, rowDFA,
            compile(IDMapSize(rowDFA.acceptSetMap), IDMapSize(patterns),
                    colRegex(patterns, rowPatterns, accSets))))

\* the constructor from rowDFA on: acceptingSets
PatternMatcherWithRowDFA(alphabetSize, patterns, rowPatterns, rowDFA) ==
    InOrder(rowDFA,
        PatternMatcherWithAcceptingSets(alphabetSize, patterns, rowPatterns, rowDFA,
            acceptingSets(rowDFA, IDMapSize(rowPatterns))))

\* the constructor from rowPatterns on: rowRegex, then rowDFA
PatternMatcherWithRowPatterns(alphabetSize, patterns, rowPatterns) ==
    InOrder(<<patterns, rowPatterns>>,
        PatternMatcherWithRowDFA(alphabetSize, patterns, rowPatterns,
            compile(alphabetSize, IDMapSize(rowPatterns), rowRegex(rowPatterns))))

\* new PatternMatcher(alphabet, patterns), for an alphabet of alphabetSize symbols
PatternMatcher(alphabetSize, patterns) ==
    PatternMatcherWithRowPatterns(alphabetSize, patterns,
        IDMapOfWithKey(IDMapEmpty,
            Flat(makeArray(IDMapSize(patterns), [i \in Nat |-> rows(At(patterns.arr, i))])), 0))

\* a lookup with the roles of pID and qID exchanged in the index
getAcceptSetDiffSwapped(pm, pState, qState) ==
    LET pID == getAcceptSetID(pm.colDFA, pState)
        qID == getAcceptSetID(pm.colDFA, qState)
    IN  At(pm.acceptSetDiffs, qID + pm.acceptSetMapSize * pID)

\* getAcceptSetDiff(pState, qState)
getAcceptSetDiff(pm, pState, qState) ==
    LET pID == getAcceptSetID(pm.colDFA, pState)
        qID == getAcceptSetID(pm.colDFA, qState)
    IN  At(pm.acceptSetDiffs, pID + pm.acceptSetMapSize * qID)

----------------------------------------------------------------------------
(* SampleableSet: `arr` holds the members, `indices` maps each member to   *)
(* its position in arr (a Map, modelled by its set of <<key, value>>       *)
(* entries).                                                               *)

SampleableSet == [arr |-> <<>>, indices |-> {}]

MapHas(m, x) == \E e \in m : e[1] = x

MapGet(m, x) == (CHOOSE e \in m : e[1] = x)[2]

MapSet(m, x, v) == {e \in m : e[1] # x} \cup {<<x, v>>}

MapDelete(m, x) == {e \in m : e[1] # x}

SetSize(set) == Len(set.arr)

SetHas(set, x) == MapHas(set.indices, x)

\* add(x)
SetAdd(set, x) ==
    IF ~MapHas(set.indices, x)
    THEN [arr |-> Push(set.arr, x), indices |-> MapSet(set.indices, x, Len(set.arr))]
    ELSE set

\* a delete that moves the last element into the hole and leaves its index as it was
SetDeleteNoReindex(set, x) ==
    IF MapHas(set.indices, x)
    THEN LET i == MapGet(set.indices, x)
             j == Len(set.arr) - 1
             y == At(set.arr, j)
             moved == IF i # j
                      THEN [arr |-> SetAt(set.arr, i, y), indices |-> set.indices]
                      ELSE set
         IN  [arr |-> Pop(moved.arr), indices |-> MapDelete(moved.indices, x)]
    ELSE set

\* a delete that leaves the set as it is
SetDeleteNothing(set, x) == set

\* delete(x)
SetDelete(set, x) ==
    IF MapHas(set.indices, x)
    THEN LET i == MapGet(set.indices, x)
             j == Len(set.arr) - 1
             y == At(set.arr, j)
             moved == IF i # j
                      THEN [arr |-> SetAt(set.arr, i, y), indices |-> MapSet(set.indices, y, i)]
                      ELSE set
         IN  [arr |-> Pop(moved.arr), indices |-> MapDelete(moved.indices, x)]
    ELSE set

\* sample(): the values it can return, rng(arr.length) being any of 0..arr.length - 1;
\* <<>> stands for undefined
SetSampleResults(set) ==
    IF Len(set.arr) > 0 THEN {<<At(set.arr, r)>> : r \in 0..(Len(set.arr) - 1)} ELSE {<<>>}

----------------------------------------------------------------------------
(* Grid and MatcherState.  A state S of the pm is the record of       *)
(* grid.grid, rowStates, colStates and matchIndices; the pm and the   *)
(* size of the grid never change.                                          *)

\* grid.index(x, y); -1 stands for the out-of-bounds error
index(W, H, x, y) == IF x < 0 \/ x >= W \/ y < 0 \/ y >= H THEN -1 ELSE x + y * W

RECURSIVE RowScanStop(_, _, _, _, _, _, _, _)
\* a row scan that stops at the first x < startX, whether or not the state changed
RowScanStop(pm, W, H, S, minChangedX, startX, y, xs) ==
    LET x == xs.x
        i == index(W, H, x, y)
        state == go(pm.rowDFA, xs.state, At(S.grid, i))
    IN  IF x < 0 \/ x < startX THEN [S |-> S, minChangedX |-> minChangedX]
        ELSE IF state # At(S.rowStates, i)
        THEN RowScanStop(pm, W, H, [S EXCEPT !.rowStates = SetAt(@, i, state)],
                         Min(minChangedX, x), startX, y, [x |-> x - 1, state |-> state])
        ELSE RowScanStop(pm, W, H, S, minChangedX, startX, y, [x |-> x - 1, state |-> state])

RECURSIVE RowScan(_, _, _, _, _, _, _, _)
\* the inner loop of "recompute rowStates": x from endX - 1 down to 0 in row y
RowScan(pm, W, H, S, minChangedX, startX, y, xs) ==
    LET x == xs.x
        i == index(W, H, x, y)
        state == go(pm.rowDFA, xs.state, At(S.grid, i))
    IN  IF x < 0 THEN [S |-> S, minChangedX |-> minChangedX]
        ELSE IF state # At(S.rowStates, i)
        THEN RowScan(pm, W, H, [S EXCEPT !.rowStates = SetAt(@, i, state)],
                     Min(minChangedX, x), startX, y, [x |-> x - 1, state |-> state])
        ELSE IF x < startX THEN [S |-> S, minChangedX |-> minChangedX]
        ELSE RowScan(pm, W, H, S, minChangedX, startX, y, [x |-> x - 1, state |-> state])

RECURSIVE RowsLoopFromZero(_, _, _, _, _, _, _, _)
\* an outer loop that starts every row scan in state 0, whatever lies right of endX
RowsLoopFromZero(pm, W, H, S, minChangedX, startX, endX, ys) ==
    IF ys.y >= ys.endY THEN [S |-> S, minChangedX |-> minChangedX]
    ELSE LET r == RowScan(pm, W, H, S, minChangedX, startX, ys.y,
                          [x |-> endX - 1, state |-> 0])
         IN  RowsLoopFromZero(pm, W, H, r.S, r.minChangedX, startX, endX,
                              [y |-> ys.y + 1, endY |-> ys.endY])

RECURSIVE RowsLoopWrap(_, _, _, _, _, _, _, _)
\* an outer loop that, at the right edge, starts the row scan in the state
\* stored at the flat index endX + W * y, which is the first cell of the next row
RowsLoopWrap(pm, W, H, S, minChangedX, startX, endX, ys) ==
    IF ys.y >= ys.endY THEN [S |-> S, minChangedX |-> minChangedX]
    ELSE LET state == IF endX + W * ys.y >= W * H THEN 0
                      ELSE At(S.rowStates, endX + W * ys.y)
             r == RowScan(pm, W, H, S, minChangedX, startX, ys.y,
                          [x |-> endX - 1, state |-> state])
         IN  RowsLoopWrap(pm, W, H, r.S, r.minChangedX, startX, endX,
                          [y |-> ys.y + 1, endY |-> ys.endY])

RECURSIVE RowsLoop(_, _, _, _, _, _, _, _)
\* the outer loop of "recompute rowStates": y from startY to endY - 1
RowsLoop(pm, W, H, S, minChangedX, startX, endX, ys) ==
    IF ys.y >= ys.endY THEN [S |-> S, minChangedX |-> minChangedX]
    ELSE LET state == IF endX = W THEN 0 ELSE At(S.rowStates, index(W, H, endX, ys.y))
             r == RowScan(pm, W, H, S, minChangedX, startX, ys.y,
                          [x |-> endX - 1, state |-> state])
         IN  RowsLoop(pm, W, H, r.S, r.minChangedX, startX, endX,
                      [y |-> ys.y + 1, endY |-> ys.endY])

RECURSIVE DeleteAll(_, _, _, _)
\* for(const acceptID of diff) matchIndices[acceptID].delete(index)
DeleteAll(matchIdx, diff, k, i) ==
    IF k >= Len(diff) THEN matchIdx
    ELSE LET deleted == SetAt(matchIdx, At(diff, k), SetDelete(At(matchIdx, At(diff, k)), i))
         IN  InOrder(deleted, DeleteAll(deleted, diff, k + 1, i))

\* an add loop that handles only the first acceptID of the diff
AddFirst(matchIdx, diff, k, i) ==
    IF k >= Len(diff) THEN matchIdx
    ELSE SetAt(matchIdx, At(diff, k), SetAdd(At(matchIdx, At(diff, k)), i))

RECURSIVE AddAll(_, _, _, _)
\* for(const acceptID of diff) matchIndices[acceptID].add(index)
AddAll(matchIdx, diff, k, i) ==
    IF k >= Len(diff) THEN matchIdx
    ELSE LET added == SetAt(matchIdx, At(diff, k), SetAdd(At(matchIdx, At(diff, k)), i))
         IN  InOrder(added, AddAll(added, diff, k + 1, i))

\* an update that adds the new matches and leaves the broken ones in place
UpdateNoDelete(pm, S, i, oldState, state) ==
    [S EXCEPT !.colStates = SetAt(@, i, state),
              !.matchIndices = AddAll(@, getAcceptSetDiff(pm, state, oldState), 0, i)]

\* the body of `if(state !== oldState)`: store the state, remove the broken
\* matches, add the new ones
UpdateMatches(pm, S, i, oldState, state) ==
    [S EXCEPT !.colStates = SetAt(@, i, state),
              !.matchIndices =
                  AddAll(DeleteAll(@, getAcceptSetDiff(pm, oldState, state), 0, i),
                         getAcceptSetDiff(pm, state, oldState), 0, i)]

RECURSIVE ColScanStop(_, _, _, _, _, _, _)
\* a column scan that stops at the first y < startY, whether or not the state changed
ColScanStop(pm, W, H, S, startY, x, ys) ==
    LET y == ys.y
        i == index(W, H, x, y)
        acceptSetID == getAcceptSetID(pm.rowDFA, At(S.rowStates, i))
        state == go(pm.colDFA, ys.state, acceptSetID)
        oldState == At(S.colStates, i)
    IN  IF y < 0 \/ y < startY THEN S
        ELSE IF state # oldState
        THEN ColScanStop(pm, W, H,
                         [S EXCEPT !.colStates = SetAt(@, i, state),
                                   !.matchIndices =
                                       AddAll(DeleteAll(@, getAcceptSetDiff(pm, oldState, state), 0, i),
                                              getAcceptSetDiff(pm, state, oldState), 0, i)],
                         startY, x, [y |-> y - 1, state |-> state])
        ELSE ColScanStop(pm, W, H, S, startY, x, [y |-> y - 1, state |-> state])

RECURSIVE ColScan(_, _, _, _, _, _, _)
\* the inner loop of "recompute colStates": y from endY - 1 down to 0 in column x
ColScan(pm, W, H, S, startY, x, ys) ==
    LET y == ys.y
        i == index(W, H, x, y)
        acceptSetID == getAcceptSetID(pm.rowDFA, At(S.rowStates, i))
        state == go(pm.colDFA, ys.state, acceptSetID)
        oldState == At(S.colStates, i)
    IN  IF y < 0 THEN S
        ELSE IF state # oldState
        THEN ColScan(pm, W, H, UpdateMatches(pm, S, i, oldState, state),
                     startY, x, [y |-> y - 1, state |-> state])
        ELSE IF y < startY THEN S
        ELSE ColScan(pm, W, H, S, startY, x, [y |-> y - 1, state |-> state])

RECURSIVE ColsLoop(_, _, _, _, _, _, _)
\* the outer loop of "recompute colStates": x from minChangedX to endX - 1
ColsLoop(pm, W, H, S, startY, endY, xs) ==
    IF xs.x >= xs.endX THEN S
    ELSE LET state == IF endY = H THEN 0 ELSE At(S.colStates, index(W, H, xs.x, endY))
         IN  ColsLoop(pm, W, H,
                      ColScan(pm, W, H, S, startY, xs.x, [y |-> endY - 1, state |-> state]),
                      startY, endY, [x |-> xs.x + 1, endX |-> xs.endX])

\* a recompute whose column phase starts at startX instead of minChangedX
recomputeFromStartX(pm, W, H, S, startX, startY, endX, endY) ==
    LET r == RowsLoop(pm, W, H, S, startX, startX, endX, [y |-> startY, endY |-> endY])
    IN  ColsLoop(pm, W, H, r.S, startY, endY, [x |-> startX, endX |-> endX])

\* MatcherState.recompute(startX, startY, endX, endY)
recompute(pm, W, H, S, startX, startY, endX, endY) ==
    LET r == RowsLoop(pm, W, H, S, startX, startX, endX, [y |-> startY, endY |-> endY])
    IN  ColsLoop(pm, W, H, r.S, startY, endY, [x |-> r.minChangedX, endX |-> endX])

----------------------------------------------------------------------------
(* Pattern.of and the catalogues the model is checked for.  A pattern is   *)
(* written as its rows, each row as its characters; "*" is the wildcard.   *)

RECURSIVE IDMapOf(_, _, _)
\* IDMap.of(iterable): the key of a value is the value
IDMapOf(map, xs, i) ==
    IF i >= Len(xs) THEN map
    ELSE LET added == IDMapAdd(map, At(xs, i), At(xs, i))
         IN  InOrder(added, IDMapOf(added, xs, i + 1))

\* Pattern.of(alphabet, pattern)
PatternOf(alphabet, src) ==
    LET symbolToID(c) == IF c = "*" THEN -1 ELSE IDMapGetID(alphabet, c)
        rowIDs(j) == LET row == At(src, j) IN makeArray(Len(row), [i \in Nat |-> symbolToID(At(row, i))])
    IN  Pattern(Len(src[1]), Len(src), Flat(makeArray(Len(src), [i \in Nat |-> rowIDs(i)])))

\* the alphabets, the patterns to match and the patterns written by setPattern
Catalogues == <<
    [alphabet |-> <<"B", "W">>,
     patterns |-> << <<<<"W", "*">>>>, <<<<"B">>, <<"W">>>>, <<<<"B">>>> >>,
     writes   |-> << <<<<"W", "*">>, <<"*", "B">>>>, <<<<"*">>>> >>],
    [alphabet |-> <<"B", "W">>,
     patterns |-> << <<<<"W", "W">>, <<"W", "*">>>>, <<<<"*", "W">>>> >>,
     writes   |-> << <<<<"W", "W">>>>, <<<<"B">>, <<"W">>>> >>],
    [alphabet |-> <<"B", "R", "I">>,
     patterns |-> << <<<<"R", "I">>>>, <<<<"I">>, <<"R">>>>, <<<<"*">>, <<"B">>>> >>,
     writes   |-> << <<<<"*", "I">>>>, <<<<"R">>, <<"I">>>> >>],
    [alphabet |-> <<"B", "W">>,
     patterns |-> << <<<<"W", "*", "W">>>> >>,
     writes   |-> << >>]
>>

\* the catalogues that have patterns to write with setPattern
Writers == {c \in DOMAIN Catalogues : Catalogues[c].writes # << >>}

Alphabet(c) == IDMapOf(IDMapEmpty, Catalogues[c].alphabet, 0)

\* the IDMap of patterns handed to the PatternMatcher constructor
PatternsOf(c) ==
    IDMapOfWithKey(IDMapEmpty,
        makeArray(Len(Catalogues[c].patterns),
                  [i \in Nat |-> PatternOf(Alphabet(c), At(Catalogues[c].patterns, i))]), 0)

WritePatterns(c) ==
    makeArray(Len(Catalogues[c].writes),
              [i \in Nat |-> PatternOf(Alphabet(c), At(Catalogues[c].writes, i))])

\* new PatternMatcher(alphabet, patterns) for catalogue c
MatcherOf(c) == PatternMatcher(IDMapSize(Alphabet(c)), PatternsOf(c))

----------------------------------------------------------------------------
(* The operations of a MatcherState and of its grid *)

MaxW == 3
MaxH == 2
MaxEdits == 3

Current == [grid |-> grid, rowStates |-> rowStates, colStates |-> colStates,
            matchIndices |-> matchIndices]

\* a constructor that leaves out the first recompute
MatcherStateNoRecompute(pm, W, H) ==
    [grid |-> makeUintArray(W * H, pm.alphabetSize),
     rowStates |-> makeUintArray(W * H, DFASize(pm.rowDFA)),
     colStates |-> makeUintArray(W * H, DFASize(pm.colDFA)),
     matchIndices |-> emptyArray(pm.numPatterns, SampleableSet)]

\* a constructor whose first recompute covers the top row only
MatcherStateTopRow(pm, W, H) ==
    recompute(pm, W, H,
              [grid |-> makeUintArray(W * H, pm.alphabetSize),
               rowStates |-> makeUintArray(W * H, DFASize(pm.rowDFA)),
               colStates |-> makeUintArray(W * H, DFASize(pm.colDFA)),
               matchIndices |-> emptyArray(pm.numPatterns, SampleableSet)],
              0, 0, W, 1)

\* new MatcherState(matcher, width, height): zeroed arrays, empty match sets, the
\* grid with recompute as its listener, then recompute(0, 0, width, height)
MatcherState(pm, W, H) ==
    recompute(pm, W, H,
              [grid |-> makeUintArray(W * H, pm.alphabetSize),
               rowStates |-> makeUintArray(W * H, DFASize(pm.rowDFA)),
               colStates |-> makeUintArray(W * H, DFASize(pm.colDFA)),
               matchIndices |-> emptyArray(pm.numPatterns, SampleableSet)],
              0, 0, W, H)

\* the operation recorded in `last`: `before` is grid.grid when it was called,
\* `calls` lists the rectangles the grid's listener (recompute) was called with,
\* `ret` is the value returned
Op(name, x, y, arg, before, calls, ret) ==
    [op |-> name, x |-> x, y |-> y, arg |-> arg, before |-> before, calls |-> calls, ret |-> ret]

\* matcher.makeState(width, height)
\* matcher.makeState(width, height), for a catalogue and a size already chosen
\* a makeState that hands out the arrays of the state made before
makeStateShared(pm, W, H) ==
    [state |-> MatcherState(pm, W, H),
     shares |-> {"grid", "rowStates", "colStates", "matchIndices"}]

\* PatternMatcher.makeState(width, height): the constructor allocates the grid,
\* rowStates, colStates and matchIndices of the new state, so it shares none of
\* them with a state made before
makeState(pm, W, H) ==
    [state |-> MatcherState(pm, W, H), shares |-> {}]

Constructed ==
    /\ matcher = MatcherOf(cat)
    /\ other = makeState(matcher, width, height)
    /\ LET made == MatcherState(matcher, width, height)
       IN  /\ grid = made.grid
           /\ rowStates = made.rowStates
           /\ colStates = made.colStates
           /\ matchIndices = made.matchIndices
           /\ prev = made
    /\ onChange = <<0>>
    /\ edits = 0
    /\ last = Op("makeState", 0, 0, <<>>, <<>>, <<<<0, 0, width, height>>>>, <<>>)
    /\ heard = <<>>
    /\ thrown = "none"
    /\ gridAlphabet = Alphabet(cat)

\* the objects a client holds, new
\* no call of minimise is in progress
NoRun == [pc |-> "idle", dfa |-> <<>>, k |-> 0, a |-> <<>>, c |-> 0, polls |-> 0,
          result |-> "none", size |-> 0, from |-> "idle", before |-> <<>>]

Held ==
    /\ idMap = IDMapEmpty
    /\ sampleSet = SampleableSet
    /\ part = Partition(1)
    /\ minimising = NoRun

Init ==
    /\ cat \in Writers
    /\ width \in 1..MaxW
    /\ height \in 1..MaxH
    /\ Constructed
    /\ Held

\* how a call on the grid ends: the state it leaves, the rectangles recompute was
\* called with, what the clients' listeners were called with (each with the
\* state it could read at that moment), and the error thrown ("none": it returned)
Outcome(state, calls, listened, error) ==
    [state |-> state, calls |-> calls, heard |-> listened, error |-> error]

RECURSIVE NotifyLoop(_, _, _, _, _, _, _)
\* for(const f of this.onChange) f(startX, startY, endX, endY), from the i-th listener on
NotifyLoop(listeners, i, pm, W, H, rect, acc) ==
    IF i >= Len(listeners) THEN acc
    ELSE LET f == At(listeners, i)
             called == IF f = 0
                       THEN Outcome(recompute(pm, W, H, acc.state, rect[1], rect[2], rect[3], rect[4]),
                                    Push(acc.calls, rect), acc.heard, acc.error)
                       ELSE Outcome(acc.state, acc.calls,
                                    Push(acc.heard, [f |-> f, rect |-> rect, saw |-> acc.state]),
                                    acc.error)
         IN  InOrder(called, NotifyLoop(listeners, i + 1, pm, W, H, rect, called))

\* a Grid.notify that calls the listeners last registered first
notifyReversed(listeners, pm, W, H, state, startX, startY, endX, endY) ==
    NotifyLoop([i \in 1..Len(listeners) |-> listeners[Len(listeners) + 1 - i]], 0, pm, W, H,
               <<startX, startY, endX, endY>>, Outcome(state, <<>>, <<>>, "none"))

\* Grid.notify(startX, startY, endX, endY)
notify(listeners, pm, W, H, state, startX, startY, endX, endY) ==
    NotifyLoop(listeners, 0, pm, W, H, <<startX, startY, endX, endY>>,
               Outcome(state, <<>>, <<>>, "none"))

\* a Grid.listen that puts f in front of the listeners already registered
listenFirst(listeners, f) == <<f>> \o listeners

\* Grid.listen(f): onChange afterwards
listen(listeners, f) == Push(listeners, f)

\* Grid.get(x, y): the symbol returned, or the error thrown by index
get(alphabet, W, H, state, x, y) ==
    IF index(W, H, x, y) < 0 THEN [ret |-> <<>>, error |-> "Out of bounds"]
    ELSE [ret |-> <<IDMapGetByID(alphabet, At(state.grid, index(W, H, x, y)))>>, error |-> "none"]

\* a set that notifies before it writes the cell
setNotifyFirst(listeners, pm, alphabet, W, H, state, x, y, value) ==
    LET r == notify(listeners, pm, W, H, state, x, y, x + 1, y + 1)
    IN  Outcome([r.state EXCEPT !.grid = SetAt(@, index(W, H, x, y), IDMapGetID(alphabet, value))],
                r.calls, r.heard, r.error)

\* a set that writes the cell before it looks the value up
setWriteFirst(listeners, pm, alphabet, W, H, state, x, y, value) ==
    IF index(W, H, x, y) < 0 THEN Outcome(state, <<>>, <<>>, "Out of bounds")
    ELSE IF IDMapGetID(alphabet, value) < 0
    THEN Outcome([state EXCEPT !.grid = SetAt(@, index(W, H, x, y), 0)], <<>>, <<>>, "Error")
    ELSE notify(listeners, pm, W, H,
                [state EXCEPT !.grid = SetAt(@, index(W, H, x, y), IDMapGetID(alphabet, value))],
                x, y, x + 1, y + 1)

\* Grid.set(x, y, value): this.alphabet afterwards
setAlphabet(alphabet, W, H, x, y, value) ==
    IF index(W, H, x, y) < 0 THEN alphabet ELSE IDMapAfterGetID(alphabet, value)

\* Grid.set(x, y, value): index(x, y) is evaluated first, then alphabet.getID(value),
\* then the cell is written and the listeners are notified
set(listeners, pm, alphabet, W, H, state, x, y, value) ==
    IF index(W, H, x, y) < 0 THEN Outcome(state, <<>>, <<>>, "Out of bounds")
    ELSE IF IDMapGetID(alphabet, value) < 0 THEN Outcome(state, <<>>, <<>>, "Error")
    ELSE notify(listeners, pm, W, H,
                [state EXCEPT !.grid = SetAt(@, index(W, H, x, y), IDMapGetID(alphabet, value))],
                x, y, x + 1, y + 1)

RECURSIVE WriteVector(_, _, _, _, _, _, _)
\* the loop of Grid.setPattern over the triples of vectorData: the cells when the
\* loop ends, and whether it ended by the error index throws
WriteVector(W, H, cells, x, y, vectorData, i) ==
    IF i >= Len(vectorData) THEN [cells |-> cells, error |-> "none"]
    ELSE IF index(W, H, x + At(vectorData, i), y + At(vectorData, i + 1)) < 0
    THEN [cells |-> cells, error |-> "Out of bounds"]
    ELSE LET written == SetAt(cells,
                              index(W, H, x + At(vectorData, i), y + At(vectorData, i + 1)),
                              At(vectorData, i + 2))
         IN  InOrder(written, WriteVector(W, H, written, x, y, vectorData, i + 3))

\* a setPattern that notifies the whole rectangle of the pattern
setPatternWholeRect(listeners, pm, W, H, state, x, y, pattern) ==
    LET w == WriteVector(W, H, state.grid, x, y, pattern.vectorData, 0)
    IN  IF w.error # "none" THEN Outcome([state EXCEPT !.grid = w.cells], <<>>, <<>>, w.error)
        ELSE notify(listeners, pm, W, H, [state EXCEPT !.grid = w.cells],
                    x, y, x + pattern.width, y + pattern.height)

\* Grid.setPattern(x, y, pattern)
setPattern(listeners, pm, W, H, state, x, y, pattern) ==
    LET w == WriteVector(W, H, state.grid, x, y, pattern.vectorData, 0)
    IN  IF w.error # "none" THEN Outcome([state EXCEPT !.grid = w.cells], <<>>, <<>>, w.error)
        ELSE notify(listeners, pm, W, H, [state EXCEPT !.grid = w.cells],
                    x + pattern.minX, y + pattern.minY, x + pattern.maxX, y + pattern.maxY)

\* countMatches(patternID)
countMatches(state, patternID) == SetSize(At(state.matchIndices, patternID))

\* a getRandomMatch with the two coordinates exchanged
getRandomMatchSwapped(W, state, patternID) ==
    {IF r = <<>> THEN <<>> ELSE <<r[1] \div W, r[1] % W>> :
        r \in SetSampleResults(At(state.matchIndices, patternID))}

\* getRandomMatch(patternID): the values it can return; <<>> stands for undefined
getRandomMatch(W, state, patternID) ==
    {IF r = <<>> THEN <<>> ELSE <<r[1] % W, r[1] \div W>> :
        r \in SetSampleResults(At(state.matchIndices, patternID))}

\* the arrays of `mine` after a call has left `theirs` in the other state: an array
\* the two states share holds what the call wrote, the others are as they were
Aliased(mine, theirs, shares) ==
    [f \in DOMAIN mine |-> IF f \in shares THEN theirs[f] ELSE mine[f]]

Become(state) ==
    /\ grid' = state.grid
    /\ rowStates' = state.rowStates
    /\ colStates' = state.colStates
    /\ matchIndices' = state.matchIndices
    /\ other' = [other EXCEPT !.state = Aliased(@, state, other.shares)]

\* a call that reads the state: nothing is written and no listener is called
Reads ==
    /\ prev' = Current
    /\ heard' = <<>>
    /\ thrown' = "none"
    /\ UNCHANGED <<cat, matcher, width, height, grid, rowStates, colStates, matchIndices,
                   onChange, edits, gridAlphabet, other, held>>

\* a call of set or setPattern that ended as r
Edits(r) ==
    /\ Become(r.state)
    /\ prev' = Current
    /\ heard' = r.heard
    /\ thrown' = r.error
    /\ edits' = edits + 1
    /\ UNCHANGED <<cat, matcher, width, height, onChange, held>>

\* state.grid.set(x, y, value) with (x, y) in the grid and value in the alphabet
GridSet ==
    \E x \in 0..(width - 1), y \in 0..(height - 1), value \in Range(Catalogues[cat].alphabet) :
        LET r == set(onChange, matcher, gridAlphabet, width, height, Current, x, y, value)
        IN  /\ edits < MaxEdits
            /\ Edits(r)
            /\ gridAlphabet' = setAlphabet(gridAlphabet, width, height, x, y, value)
            /\ last' = Op("set", x, y, value, grid, r.calls, <<>>)

\* state.grid.setPattern(x, y, pattern) with the pattern inside the grid
GridSetPattern ==
    \E w \in 0..(Len(Catalogues[cat].writes) - 1) :
        LET pattern == At(WritePatterns(cat), w)
        IN  \E x \in 0..(width - pattern.width), y \in 0..(height - pattern.height) :
                LET r == setPattern(onChange, matcher, width, height, Current, x, y, pattern)
                IN  /\ edits < MaxEdits
                    /\ Edits(r)
                    /\ UNCHANGED gridAlphabet
                    /\ last' = Op("setPattern", x, y, w, grid, r.calls, <<>>)

\* state.countMatches(patternID)
CountMatches ==
    \E patternID \in 0..(matcher.numPatterns - 1) :
        /\ last' = Op("countMatches", 0, 0, patternID, grid, <<>>,
                      <<countMatches(Current, patternID)>>)
        /\ Reads

\* state.getRandomMatch(patternID)
GetRandomMatch ==
    \E patternID \in 0..(matcher.numPatterns - 1) :
        \E ret \in getRandomMatch(width, Current, patternID) :
            /\ last' = Op("getRandomMatch", 0, 0, patternID, grid, <<>>, ret)
            /\ Reads

Next == GridSet \/ GridSetPattern \/ CountMatches \/ GetRandomMatch

Spec == Init /\ [][Next]_vars

----------------------------------------------------------------------------
(* The same state used by a client that also reads cells, registers        *)
(* listeners, and passes coordinates and symbols that need not be valid.   *)

MaxCalls == 2
MaxListeners == 2

\* a symbol that is in no alphabet
Unknown == "?"

\* state.grid.listen(f), f being the next listener of the client
GridListen ==
    /\ Len(onChange) - 1 < MaxListeners
    /\ onChange' = listen(onChange, Len(onChange))
    /\ last' = Op("listen", 0, 0, Len(onChange), grid, <<>>, <<>>)
    /\ prev' = Current
    /\ heard' = <<>>
    /\ thrown' = "none"
    /\ UNCHANGED <<cat, matcher, width, height, grid, rowStates, colStates, matchIndices,
                   edits, gridAlphabet, other, held>>

\* state.grid.get(x, y), with (x, y) in the grid or just outside it
GridGet ==
    \E x \in (-1)..width, y \in (-1)..height :
        LET r == get(gridAlphabet, width, height, Current, x, y)
        IN  /\ last' = Op("get", x, y, <<>>, grid, <<>>, r.ret)
            /\ prev' = Current
            /\ heard' = <<>>
            /\ thrown' = r.error
            /\ UNCHANGED <<cat, matcher, width, height, grid, rowStates, colStates,
                           matchIndices, onChange, edits, gridAlphabet, other, held>>

\* state.grid.set(x, y, value), with (x, y) in the grid or just outside it and
\* value a symbol of the alphabet or not
GridSetAny ==
    \E x \in (-1)..width, y \in (-1)..height,
       value \in Range(Catalogues[cat].alphabet) \cup {Unknown} :
        LET r == set(onChange, matcher, gridAlphabet, width, height, Current, x, y, value)
        IN  /\ edits < MaxCalls
            /\ Edits(r)
            /\ gridAlphabet' = setAlphabet(gridAlphabet, width, height, x, y, value)
            /\ last' = Op("set", x, y, value, grid, r.calls, <<>>)

\* state.grid.setPattern(x, y, pattern), with the pattern inside the grid or
\* overhanging it
GridSetPatternAny ==
    \E w \in 0..(Len(Catalogues[cat].writes) - 1), x \in (-1)..width, y \in (-1)..height :
        LET r == setPattern(onChange, matcher, width, height, Current, x, y,
                            At(WritePatterns(cat), w))
        IN  /\ edits < MaxCalls
            /\ Edits(r)
            /\ UNCHANGED gridAlphabet
            /\ last' = Op("setPattern", x, y, w, grid, r.calls, <<>>)

NextAnyCall == GridListen \/ GridGet \/ GridSetAny \/ GridSetPatternAny

SpecAnyCall == Init /\ [][NextAnyCall]_vars

----------------------------------------------------------------------------
(* recompute with its work counted: the rowDFA steps of each row, the      *)
(* colDFA steps of each column, the add and delete calls on matchIndices   *)
(* and how many of them found the index absent (add) or present (delete).  *)

RECURSIVE RowScanWorkNoBreak(_, _, _, _, _, _, _, _, _)
\* a counted row scan that goes on to x = 0 whether or not the state changed
RowScanWorkNoBreak(pm, W, H, S, minChangedX, startX, y, xs, steps) ==
    LET x == xs.x
        i == index(W, H, x, y)
        state == go(pm.rowDFA, xs.state, At(S.grid, i))
    IN  IF x < 0 THEN [S |-> S, minChangedX |-> minChangedX, steps |-> steps]
        ELSE RowScanWorkNoBreak(pm, W, H, [S EXCEPT !.rowStates = SetAt(@, i, state)],
                                IF state # At(S.rowStates, i) THEN Min(minChangedX, x)
                                ELSE minChangedX,
                                startX, y, [x |-> x - 1, state |-> state], steps + 1)

RECURSIVE RowScanWork(_, _, _, _, _, _, _, _, _)
\* the inner loop of "recompute rowStates"; every iteration makes one rowDFA.go
RowScanWork(pm, W, H, S, minChangedX, startX, y, xs, steps) ==
    LET x == xs.x
        i == index(W, H, x, y)
        state == go(pm.rowDFA, xs.state, At(S.grid, i))
    IN  IF x < 0 THEN [S |-> S, minChangedX |-> minChangedX, steps |-> steps]
        ELSE IF state # At(S.rowStates, i)
        THEN RowScanWork(pm, W, H, [S EXCEPT !.rowStates = SetAt(@, i, state)],
                         Min(minChangedX, x), startX, y, [x |-> x - 1, state |-> state],
                         steps + 1)
        ELSE IF x < startX THEN [S |-> S, minChangedX |-> minChangedX, steps |-> steps + 1]
        ELSE RowScanWork(pm, W, H, S, minChangedX, startX, y, [x |-> x - 1, state |-> state],
                         steps + 1)

RECURSIVE RowsLoopWork(_, _, _, _, _, _, _, _, _)
\* the outer loop of "recompute rowStates"; rowSteps gains the steps of each row
RowsLoopWork(pm, W, H, S, minChangedX, startX, endX, ys, rowSteps) ==
    IF ys.y >= ys.endY THEN [S |-> S, minChangedX |-> minChangedX, rowSteps |-> rowSteps]
    ELSE LET state == IF endX = W THEN 0 ELSE At(S.rowStates, index(W, H, endX, ys.y))
             r == RowScanWork(pm, W, H, S, minChangedX, startX, ys.y,
                              [x |-> endX - 1, state |-> state], 0)
         IN  RowsLoopWork(pm, W, H, r.S, r.minChangedX, startX, endX,
                          [y |-> ys.y + 1, endY |-> ys.endY], Push(rowSteps, r.steps))

\* the delete calls of one update that find the index present, plus the add
\* calls that find it absent
RealUpdates(pm, S, i, oldState, state) ==
    Cardinality({k \in 1..Len(getAcceptSetDiff(pm, oldState, state)) :
                    SetHas(At(S.matchIndices, getAcceptSetDiff(pm, oldState, state)[k]), i)})
    + Cardinality({k \in 1..Len(getAcceptSetDiff(pm, state, oldState)) :
                    ~SetHas(At(DeleteAll(S.matchIndices, getAcceptSetDiff(pm, oldState, state), 0, i),
                               getAcceptSetDiff(pm, state, oldState)[k]), i)})

RECURSIVE ColScanWork(_, _, _, _, _, _, _, _)
\* the inner loop of "recompute colStates"; every iteration makes one colDFA.go,
\* and a changed state one delete call per broken match and one add call per
\* new match
ColScanWork(pm, W, H, S, startY, x, ys, work) ==
    LET y == ys.y
        i == index(W, H, x, y)
        acceptSetID == getAcceptSetID(pm.rowDFA, At(S.rowStates, i))
        state == go(pm.colDFA, ys.state, acceptSetID)
        oldState == At(S.colStates, i)
    IN  IF y < 0 THEN [S |-> S, work |-> work]
        ELSE IF state # oldState
        THEN ColScanWork(pm, W, H, UpdateMatches(pm, S, i, oldState, state),
                         startY, x, [y |-> y - 1, state |-> state],
                         [steps |-> work.steps + 1,
                          calls |-> work.calls + Len(getAcceptSetDiff(pm, oldState, state))
                                               + Len(getAcceptSetDiff(pm, state, oldState)),
                          real |-> work.real + RealUpdates(pm, S, i, oldState, state)])
        ELSE IF y < startY THEN [S |-> S, work |-> [work EXCEPT !.steps = @ + 1]]
        ELSE ColScanWork(pm, W, H, S, startY, x, [y |-> y - 1, state |-> state],
                         [work EXCEPT !.steps = @ + 1])

RECURSIVE ColsLoopWork(_, _, _, _, _, _, _, _)
\* the outer loop of "recompute colStates"; colSteps gains the steps of each column
ColsLoopWork(pm, W, H, S, startY, endY, xs, acc) ==
    IF xs.x >= xs.endX THEN [acc EXCEPT !.S = S]
    ELSE LET state == IF endY = H THEN 0 ELSE At(S.colStates, index(W, H, xs.x, endY))
             r == ColScanWork(pm, W, H, S, startY, xs.x, [y |-> endY - 1, state |-> state],
                              [steps |-> 0, calls |-> acc.calls, real |-> acc.real])
         IN  ColsLoopWork(pm, W, H, r.S, startY, endY, [x |-> xs.x + 1, endX |-> xs.endX],
                          [S |-> r.S, rowSteps |-> acc.rowSteps,
                           colSteps |-> Push(acc.colSteps, r.work.steps),
                           calls |-> r.work.calls, real |-> r.work.real])

\* MatcherState.recompute(startX, startY, endX, endY): the state afterwards and
\* the work done
recomputeWork(pm, W, H, S, startX, startY, endX, endY) ==
    LET r == RowsLoopWork(pm, W, H, S, startX, startX, endX, [y |-> startY, endY |-> endY], <<>>)
    IN  ColsLoopWork(pm, W, H, r.S, startY, endY, [x |-> r.minChangedX, endX |-> endX],
                     [S |-> r.S, rowSteps |-> r.rowSteps, colSteps |-> <<>>,
                      calls |-> 0, real |-> 0])

----------------------------------------------------------------------------
(* Grids with a side longer than the longest pattern, and the grid of five *)
(* cells in a row with the one pattern "W*W".                              *)

MaxSide == 4

\* the cells of the row "WBWBW"
ExampleRow == <<"W", "B", "W", "B", "W">>

\* the catalogue whose only pattern is "W*W"
ExampleCat == CHOOSE c \in DOMAIN Catalogues : Catalogues[c].patterns = << <<<<"W", "*", "W">>>> >>

\* catalogue, width, height
WideGrids ==
    {<<c, MaxSide, 2>> : c \in Writers} \cup {<<c, 2, MaxSide>> : c \in Writers}
        \cup {<<ExampleCat, Len(ExampleRow), 1>>}

InitWide ==
    /\ \E g \in WideGrids : cat = g[1] /\ width = g[2] /\ height = g[3]
    /\ Constructed
    /\ Held

NextWide == GridSet \/ GridSetPattern \/ CountMatches

SpecWide == InitWide /\ [][NextWide]_vars

----------------------------------------------------------------------------
(* The automata of a PatternMatcher: calls on rowDFA and colDFA, and the   *)
(* steps of Regex.compile that made them.                                  *)

MaxWordLen == 4
MaxProbes == 1

\* matcher.rowDFA or matcher.colDFA
DFAOf(pm, which) == IF which = "row" THEN pm.rowDFA ELSE pm.colDFA

\* a call on the automata: it changes no field of the state and may throw;
\* `edits` counts these calls too
Probes(error) ==
    /\ edits < MaxProbes
    /\ edits' = edits + 1
    /\ prev' = Current
    /\ heard' = <<>>
    /\ thrown' = error
    /\ UNCHANGED <<cat, matcher, width, height, grid, rowStates, colStates, matchIndices,
                   onChange, gridAlphabet, other, held>>

\* dfa.go(state, letterID), with state and letterID in range or just outside it
DFAGo ==
    \E which \in {"row", "col"} :
        \E state \in (-1)..DFASize(DFAOf(matcher, which)),
           letterID \in (-1)..DFAOf(matcher, which).alphabetSize :
            LET r == goCall(DFAOf(matcher, which), state, letterID)
            IN  /\ Probes(r.error)
                /\ last' = [op |-> "go", dfa |-> which, state |-> state,
                            letterID |-> letterID, ret |-> r.ret]

\* the IDMap of row patterns the PatternMatcher constructor builds from the patterns
RowPatternsOf(patterns) ==
    IDMapOfWithKey(IDMapEmpty,
        Flat(makeArray(IDMapSize(patterns), [i \in Nat |-> rows(At(patterns.arr, i))])), 0)

\* the NFA Regex.compile makes on the way to pm.rowDFA or pm.colDFA
NFAOf(pm, patterns, which) ==
    IF which = "row"
    THEN NFA(pm.alphabetSize, IDMapSize(RowPatternsOf(patterns)),
             rowRegex(RowPatternsOf(patterns)))
    ELSE NFA(IDMapSize(pm.rowDFA.acceptSetMap), IDMapSize(patterns),
             colRegex(patterns, RowPatternsOf(patterns),
                      acceptingSets(pm.rowDFA, IDMapSize(RowPatternsOf(patterns)))))

\* the strings of at most n letters over the letter IDs 0..(alphabetSize - 1)
Words(alphabetSize, n) == UNION {[1..k -> 0..(alphabetSize - 1)] : k \in 0..n}

RECURSIVE NFAClosure(_, _)
\* the NFA nodes reachable from those of S by epsilon transitions
NFAClosure(nodes, S) ==
    LET T == S \cup UNION {Range(nodes[s + 1].epsilons) : s \in S}
    IN  IF T = S THEN S ELSE NFAClosure(nodes, T)

\* the NFA nodes reached from those of S by reading the letter c
NFAMove(nodes, S, c) ==
    NFAClosure(nodes, {nodes[s + 1].nextID : s \in {t \in S : c \in Range(nodes[t + 1].letters)}})

RECURSIVE NFARun(_, _, _)
NFARun(nodes, S, word) ==
    IF word = <<>> THEN S ELSE NFARun(nodes, NFAMove(nodes, S, word[1]), Tail(word))

\* the accept labels the NFA emits on the word
NFAEmits(nfa, word) ==
    UNION {Range(nfa.nodes[s + 1].acceptSet) :
              s \in NFARun(nfa.nodes, NFAClosure(nfa.nodes, {nfa.startID}), word)}

RECURSIVE DFARun(_, _, _)
\* the state the DFA is in after reading the word from `state`
DFARun(dfa, state, word) ==
    IF word = <<>> THEN state ELSE DFARun(dfa, go(dfa, state, word[1]), Tail(word))

\* a word read by the compiled DFA from state 0 and by the NFA it was compiled from
RunWord ==
    \E which \in {"row", "col"} :
        LET nfa == NFAOf(matcher, PatternsOf(cat), which)
        IN  \E word \in Words(DFAOf(matcher, which).alphabetSize, MaxWordLen) :
                /\ Probes("none")
                /\ last' = [op |-> "run", dfa |-> which, word |-> word,
                            state |-> DFARun(DFAOf(matcher, which), 0, word),
                            emitted |-> NFAEmits(nfa, word)]

\* what a call of minimise on `dfa` leaves: the partition the refinement ended
\* with (each state's representative, and the representative forEachRepresentative
\* passes first), whether the shortcut fired, the DFA returned
MinimiseOutcome(which, dfa, r) ==
    [op |-> "minimise", dfa |-> which, input |-> dfa, full |-> r.full,
     block |-> [id \in 0..(DFASize(dfa) - 1) |-> getRepresentative(r.P, id)],
     first |-> At(Representatives(r.P), 0),
     output |-> minimiseResult(dfa, r)]

MinimiseCall(which, dfa) == MinimiseOutcome(which, dfa, minimisePartition(dfa))

\* toDFA().minimise() on the NFA of the row regex or of the column regex
Minimise ==
    \E which \in {"row", "col"} :
        /\ Probes("none")
        /\ last' = MinimiseCall(which, toDFA(NFAOf(matcher, PatternsOf(cat), which)))

\* matcher.getAcceptSetDiff(pState, qState) for two states of colDFA
GetAcceptSetDiff ==
    \E pState, qState \in 0..(DFASize(matcher.colDFA) - 1) :
        /\ Probes("none")
        /\ last' = [op |-> "getAcceptSetDiff", pState |-> pState, qState |-> qState,
                    ret |-> getAcceptSetDiff(matcher, pState, qState)]

InitDFA == Init /\ width = 1 /\ height = 1

NextDFA == DFAGo \/ RunWord \/ Minimise \/ GetAcceptSetDiff

SpecDFA == InitDFA /\ [][NextDFA]_vars

----------------------------------------------------------------------------
(* What it means for a pattern to match, stated on the catalogue itself:   *)
(* the patterns as written, the alphabet as written, the cells of a grid.  *)

PatternIDs == 0..(Len(Catalogues[cat].patterns) - 1)

Cells == 0..(width * height - 1)

\* pattern p as it is written in the catalogue: its rows of characters
Src(p) == Catalogues[cat].patterns[p + 1]

\* the symbol in cell (x, y) of a grid of symbol-IDs
SymbolAt(cells, x, y) == Catalogues[cat].alphabet[cells[x + width * y + 1] + 1]

\* the symbol-ID of a symbol of the alphabet
SymbolID(value) ==
    CHOOSE id \in 0..(Len(Catalogues[cat].alphabet) - 1) : Catalogues[cat].alphabet[id + 1] = value

\* the written pattern src lies inside the grid at (x, y) and every cell of it
\* that is not a wildcard equals the grid cell under it
MatchesAt(cells, src, x, y) ==
    /\ x + Len(src[1]) <= width
    /\ y + Len(src) <= height
    /\ \A dy \in 1..Len(src), dx \in 1..Len(src[1]) :
           src[dy][dx] = "*" \/ src[dy][dx] = SymbolAt(cells, x + dx - 1, y + dy - 1)

\* the positions at which pattern p matches a grid
MatchPositions(cells, p) ==
    {pos \in (0..(width - 1)) \X (0..(height - 1)) : MatchesAt(cells, Src(p), pos[1], pos[2])}

\* the members of a SampleableSet: what it lists and what it says it has
Members(sset) == Range(sset.arr) \cup {e[1] : e \in sset.indices}

\* the rowDFA state I2 prescribes for cell (x, y): from state 0 at the right edge,
\* reading the cells (W-1, y), ..., (x, y)
RowRun(cells, x, y) ==
    LET run[k \in 0..width] ==
            IF k = width THEN 0 ELSE go(matcher.rowDFA, run[k + 1], cells[k + width * y + 1])
    IN  run[x]

\* the colDFA state I3 prescribes for cell (x, y): from state 0 at the bottom edge,
\* reading the accept-set IDs of the row states (x, H-1), ..., (x, y)
ColRun(rowSts, x, y) ==
    LET run[k \in 0..height] ==
            IF k = height THEN 0
            ELSE go(matcher.colDFA, run[k + 1],
                    getAcceptSetID(matcher.rowDFA, rowSts[x + width * k + 1]))
    IN  run[y]

\* the row and column states of a grid computed from scratch
RowStatesOf(cells) == makeArray(width * height, [i \in Nat |-> RowRun(cells, i % width, i \div width)])

ColStatesOf(cells) ==
    makeArray(width * height, [i \in Nat |-> ColRun(RowStatesOf(cells), i % width, i \div width)])

Edited == last.op \in {"set", "setPattern"}

----------------------------------------------------------------------------
(* The properties *)

\* C1 (T1, soundness): whatever index a match set of pattern p holds, p matches
\* the grid at (i mod W, i div W)
Soundness ==
    \A p \in PatternIDs : \A i \in Members(At(matchIndices, p)) :
        /\ i \in Cells
        /\ MatchesAt(grid, Src(p), i % width, i \div width)

\* an edit has produced a match of a pattern of two rows
SoundnessWitness ==
    /\ Edited
    /\ \E p \in PatternIDs :
           /\ Len(Src(p)) = 2
           /\ MatchPositions(grid, p) # {}
           /\ MatchPositions(last.before, p) = {}
           /\ Members(At(matchIndices, p)) # {}

\* C2 (T2, completeness): wherever pattern p matches the grid, the index x + W*y is
\* in the match set of p, overlapping occurrences included
Completeness ==
    \A p \in PatternIDs : \A pos \in MatchPositions(grid, p) :
        /\ SetHas(At(matchIndices, p), pos[1] + width * pos[2])
        /\ (pos[1] + width * pos[2]) \in Range(At(matchIndices, p).arr)

\* after an edit a pattern two cells wide matches at (x, y) and at (x + 1, y)
CompletenessWitness ==
    /\ Edited
    /\ \E p \in PatternIDs : \E pos \in MatchPositions(grid, p) :
           /\ Len(Src(p)[1]) = 2
           /\ <<pos[1] + 1, pos[2]>> \in MatchPositions(grid, p)
           /\ MatchPositions(last.before, p) # MatchPositions(grid, p)

\* C3 (I4): for every pattern p and every cell index i, matchIndices[p].has(i)
\* exactly when p is among colDFA.getAcceptIDs(colStates[i])
I4 ==
    \A p \in PatternIDs : \A i \in Cells :
        SetHas(At(matchIndices, p), i) <=> p \in Range(getAcceptIDs(matcher.colDFA, At(colStates, i)))

\* the last edit broke a match of one pattern and made a match of another
I4Witness ==
    /\ Edited
    /\ \E p \in PatternIDs : \E i \in Cells :
           /\ <<i % width, i \div width>> \in MatchPositions(last.before, p)
           /\ ~SetHas(At(matchIndices, p), i)
    /\ \E p \in PatternIDs : \E i \in Cells :
           /\ <<i % width, i \div width>> \notin MatchPositions(last.before, p)
           /\ SetHas(At(matchIndices, p), i)

\* C4 (I2): for every cell (x, y), rowStates[x + W*y] is the rowDFA state reached
\* from state 0 by reading the cells (W-1, y), (W-2, y), ..., (x, y); the early
\* break of the leftward scan leaves no stale entry further left
I2 ==
    \A i \in Cells : At(rowStates, i) = RowRun(grid, i % width, i \div width)

\* grid.set changed the cell at x = 2 and its row state, the row state at x = 1
\* came out as it was, so the scan broke off there and never visited x = 0
I2Witness ==
    /\ last.op = "set"
    /\ last.x = 2
    /\ grid # last.before
    /\ RowRun(grid, 2, last.y) # RowRun(last.before, 2, last.y)
    /\ RowRun(grid, 1, last.y) = RowRun(last.before, 1, last.y)
    /\ At(rowStates, width * last.y) # 0

\* C5 (I3): for every cell (x, y), colStates[x + W*y] is the colDFA state reached
\* from state 0 by reading rowDFA.getAcceptSetID(rowStates[x, H-1]), ...,
\* rowDFA.getAcceptSetID(rowStates[x, y]); the columns left of startX whose row
\* states changed are rescanned
I3 ==
    \A i \in Cells : At(colStates, i) = ColRun(rowStates, i % width, i \div width)

\* grid.set at x >= 1 changed the row state and the column state of a cell to
\* the left of x, in a row above the bottom one
I3Witness ==
    /\ last.op = "set"
    /\ last.x >= 1
    /\ \E x \in 0..(last.x - 1) :
           /\ RowRun(grid, x, last.y) # RowRun(last.before, x, last.y)
           /\ \E y \in 0..last.y :
                  At(ColStatesOf(last.before), x + width * y) # At(colStates, x + width * y)

\* C6: right after matcher.makeState(W, H), before any edit, every cell holds
\* symbol-ID 0 and the match set of every pattern p is exactly the set of the
\* positions at which p matches the all-zero grid, so that countMatches(p) is right
MakeStateMaterialised ==
    last.op = "makeState" =>
        /\ edits = 0
        /\ Len(grid) = width * height
        /\ \A i \in Cells : At(grid, i) = 0
        /\ \A p \in PatternIDs :
               /\ Members(At(matchIndices, p)) =
                      {pos[1] + width * pos[2] : pos \in MatchPositions(grid, p)}
               /\ countMatches(Current, p) = Cardinality(MatchPositions(grid, p))

\* a fresh state in which one pattern matches in several places and another nowhere
MakeStateWitness ==
    /\ last.op = "makeState"
    /\ \E p \in PatternIDs : countMatches(Current, p) >= 2
    /\ \E p \in PatternIDs : countMatches(Current, p) = 0

\* C7: grid.set(x, y, value) sets cell (x, y) to the symbol-ID of value, leaves
\* every other cell as it was, calls recompute exactly once, with (x, y, x+1, y+1),
\* and I2, I3 and I4 hold afterwards
SetEffect ==
    last.op = "set" =>
        /\ At(grid, last.x + width * last.y) = SymbolID(last.arg)
        /\ \A i \in Cells \ {last.x + width * last.y} : At(grid, i) = At(last.before, i)
        /\ Len(grid) = Len(last.before)
        /\ last.calls = <<<<last.x, last.y, last.x + 1, last.y + 1>>>>
        /\ I2 /\ I3 /\ I4

\* grid.set has changed a cell that is neither in the last column nor in the
\* bottom row, and the matches changed with it
SetWitness ==
    /\ last.op = "set"
    /\ last.x + 1 < width
    /\ last.y + 1 < height
    /\ At(grid, last.x + width * last.y) # At(last.before, last.x + width * last.y)
    /\ \E p \in PatternIDs : MatchPositions(grid, p) # MatchPositions(last.before, p)

\* the written pattern w of the catalogue, and the cells of it that are not wildcards
WriteSrc(w) == Catalogues[cat].writes[w + 1]

NonWildcards(src) ==
    {d \in (0..(Len(src[1]) - 1)) \X (0..(Len(src) - 1)) : src[d[2] + 1][d[1] + 1] # "*"}

\* the bounding box of the non-wildcard cells, (0, 0, 0, 0) when there is none
BoundingBox(src) ==
    LET nw == NonWildcards(src)
        xs == {d[1] : d \in nw}
        ys == {d[2] : d \in nw}
    IN  IF nw = {} THEN <<0, 0, 0, 0>>
        ELSE <<CHOOSE a \in xs : \A b \in xs : a <= b, CHOOSE a \in ys : \A b \in ys : a <= b,
               (CHOOSE a \in xs : \A b \in xs : a >= b) + 1,
               (CHOOSE a \in ys : \A b \in ys : a >= b) + 1>>

\* C8: grid.setPattern(x, y, pattern), the pattern inside the grid, writes every
\* non-wildcard cell of the pattern at offset (x, y), leaves the cells under
\* wildcards and the cells outside the pattern as they were, calls recompute
\* exactly once, over the pattern's bounding box, and I2, I3 and I4 hold afterwards
SetPatternEffect ==
    last.op = "setPattern" =>
        LET src == WriteSrc(last.arg)
            box == BoundingBox(src)
        IN  /\ \A d \in NonWildcards(src) :
                   SymbolAt(grid, last.x + d[1], last.y + d[2]) = src[d[2] + 1][d[1] + 1]
            /\ \A i \in Cells :
                   <<(i % width) - last.x, (i \div width) - last.y>> \notin NonWildcards(src)
                       => At(grid, i) = At(last.before, i)
            /\ Len(grid) = Len(last.before)
            /\ last.calls = <<<<last.x + box[1], last.y + box[2],
                                last.x + box[3], last.y + box[4]>>>>
            /\ I2 /\ I3 /\ I4

\* grid.setPattern has written a pattern that has a wildcard and a cell that is
\* none, has changed a cell and left a non-zero cell as it was, and the matches changed
SetPatternWitness ==
    /\ last.op = "setPattern"
    /\ NonWildcards(WriteSrc(last.arg)) # {}
    /\ Cardinality(NonWildcards(WriteSrc(last.arg))) < Len(WriteSrc(last.arg)) * Len(WriteSrc(last.arg)[1])
    /\ grid # last.before
    /\ \E i \in Cells : At(grid, i) # 0 /\ At(grid, i) = At(last.before, i)
    /\ \E p \in PatternIDs : MatchPositions(grid, p) # MatchPositions(last.before, p)

\* C9: after any sequence of edits countMatches(p) is the number of distinct
\* positions at which pattern p matches the grid, and that is what a call returns
CountMatchesExact ==
    /\ \A p \in PatternIDs : countMatches(Current, p) = Cardinality(MatchPositions(grid, p))
    /\ last.op = "countMatches" =>
           last.ret = <<Cardinality(MatchPositions(grid, last.arg))>>

\* countMatches was called after two edits or more for a pattern that matches at
\* two positions or more, while another pattern matches at the same position
CountMatchesWitness ==
    /\ last.op = "countMatches"
    /\ edits >= 2
    /\ last.ret[1] >= 2
    /\ \E p \in PatternIDs \ {last.arg} :
           MatchPositions(grid, p) \cap MatchPositions(grid, last.arg) # {}

\* the results getRandomMatch(p) may have by C10: none when p matches nowhere,
\* else any of the positions at which p matches
RandomMatchResults(p) ==
    IF MatchPositions(grid, p) = {} THEN {<<>>} ELSE MatchPositions(grid, p)

\* C10: getRandomMatch(p) returns none exactly when pattern p matches nowhere;
\* otherwise it returns a position inside the grid at which p matches, and every
\* position at which p matches is a possible result
RandomMatchExact ==
    /\ \A p \in PatternIDs : getRandomMatch(width, Current, p) = RandomMatchResults(p)
    /\ last.op = "getRandomMatch" =>
           /\ last.ret \in RandomMatchResults(last.arg)
           /\ last.ret # <<>> => last.ret[1] \in 0..(width - 1) /\ last.ret[2] \in 0..(height - 1)

\* getRandomMatch returned a position in the second row and not in the first
\* column, after two edits or more, for a pattern that matches at several
\* positions
RandomMatchWitness ==
    /\ last.op = "getRandomMatch"
    /\ edits >= 2
    /\ last.ret # <<>>
    /\ last.ret[1] >= 1
    /\ last.ret[2] >= 1
    /\ Cardinality(MatchPositions(grid, last.arg)) >= 2
    /\ Len(At(matchIndices, last.arg).arr) >= 2

----------------------------------------------------------------------------
(* Errors and listeners *)

\* the state of the engine as the last operation left it is the state it was called in
StateAsBefore ==
    /\ grid = prev.grid
    /\ rowStates = prev.rowStates
    /\ colStates = prev.colStates
    /\ matchIndices = prev.matchIndices

\* C11: a get, set or setPattern that accesses a coordinate outside the grid
\* fails with the out-of-bounds error and leaves cells, rowStates, colStates and
\* matchIndices exactly as they were, a setPattern whose pattern only partly
\* overhangs the grid included
OutOfBoundsLeavesState ==
    /\ (last.op \in {"get", "set"} /\ index(width, height, last.x, last.y) < 0)
           => (thrown = "Out of bounds" /\ StateAsBefore)
    /\ (/\ last.op = "setPattern"
        /\ \E d \in NonWildcards(WriteSrc(last.arg)) :
               index(width, height, last.x + d[1], last.y + d[2]) < 0)
           => (thrown = "Out of bounds" /\ StateAsBefore)

\* What a listener registered with state.grid.listen was shown when it was called
SawCells(h) == h.saw.grid = grid
SawOldMatches(h) ==
    /\ h.saw.rowStates = prev.rowStates
    /\ h.saw.colStates = prev.colStates
    /\ h.saw.matchIndices = prev.matchIndices
SawNewMatches(h) ==
    /\ h.saw.rowStates = rowStates
    /\ h.saw.colStates = colStates
    /\ h.saw.matchIndices = matchIndices

\* C12, as stated: on every edit a listener registered with state.grid.listen is
\* called after the cells have been written but before recompute has updated
\* rowStates, colStates and matchIndices for that edit.
ListenerBeforeRecompute ==
    \A i \in DOMAIN heard : SawCells(heard[i]) /\ SawOldMatches(heard[i])

\* C12, as the code has it: the MatcherState constructor registers recompute
\* before any client can call state.grid.listen, so on every edit a client's
\* listener is called after the cells have been written and after recompute has
\* updated rowStates, colStates and matchIndices for that edit.
ListenerAfterRecompute ==
    /\ onChange[1] = 0
    /\ \A i \in DOMAIN heard : SawCells(heard[i]) /\ SawNewMatches(heard[i])

\* an edit that a listener heard and that changed the matches
ListenerWitness ==
    /\ heard # <<>>
    /\ last.op \in {"set", "setPattern"}
    /\ grid # prev.grid
    /\ matchIndices # prev.matchIndices
    /\ rowStates # prev.rowStates

\* The cells whose value the last call changed, as (x, y)
ChangedCells ==
    {c \in (0..(width - 1)) \X (0..(height - 1)) :
        At(grid, index(width, height, c[1], c[2])) # At(prev.grid, index(width, height, c[1], c[2]))}
InRect(c, rect) == rect[1] <= c[1] /\ c[1] < rect[3] /\ rect[2] <= c[2] /\ c[2] < rect[4]

\* C13: every successful grid.set or grid.setPattern call invokes each registered
\* listener exactly once, in registration order (recompute, registered by the
\* constructor, then the client's listeners), each with the same rectangle
\* (minX, minY, maxX, maxY), max exclusive, which contains every cell whose value
\* the call changed.
ListenersNotified ==
    (last.op \in {"set", "setPattern"} /\ thrown = "none") =>
        /\ Len(last.calls) = 1
        /\ <<0>> \o [i \in DOMAIN heard |-> heard[i].f] = onChange
        /\ \A i \in DOMAIN heard : heard[i].rect = last.calls[1]
        /\ \A c \in ChangedCells : InRect(c, last.calls[1])

\* a successful setPattern that changed two cells and was heard by two listeners
ListenersNotifiedWitness ==
    /\ last.op = "setPattern"
    /\ thrown = "none"
    /\ Len(heard) = 2
    /\ Cardinality(ChangedCells) = 2

\* C14: grid.set(x, y, value) with (x, y) in the grid and a value that is not a
\* symbol of the alphabet fails with the error IDMap.getID throws for an
\* unknown key; the cells, rowStates, colStates and matchIndices are as before,
\* no listener (recompute included) is invoked, and the alphabet has not
\* gained the key: its size is unchanged.
UnknownKeyLeavesState ==
    (/\ last.op = "set"
     /\ index(width, height, last.x, last.y) >= 0
     /\ last.arg \notin Range(Catalogues[cat].alphabet))
        => /\ thrown = "Error"
           /\ StateAsBefore
           /\ last.calls = <<>>
           /\ heard = <<>>
           /\ ~IDMapHas(gridAlphabet, last.arg)
           /\ IDMapSize(gridAlphabet) = Len(Catalogues[cat].alphabet)

\* a set of an unknown symbol on a cell of the grid, with a listener registered,
\* after an edit that left the cell with a symbol other than the first
UnknownKeyWitness ==
    /\ last.op = "set"
    /\ last.arg = Unknown
    /\ index(width, height, last.x, last.y) >= 0
    /\ Len(onChange) = 2
    /\ At(grid, index(width, height, last.x, last.y)) # 0
    /\ thrown = "Error"

----------------------------------------------------------------------------
(* The automata *)

\* C15: DFA.go(state, letter) returns transitions[state][letter] when
\* 0 <= state < size() and 0 <= letter < alphabetSize, a state in [0, size());
\* otherwise it fails with an error and returns nothing, no sentinel value.
GoInRangeOrError ==
    last.op = "go" =>
        LET dfa == DFAOf(matcher, last.dfa)
        IN  IF last.state \in 0..(DFASize(dfa) - 1) /\ last.letterID \in 0..(dfa.alphabetSize - 1)
            THEN /\ thrown = "none"
                 /\ last.ret = <<dfa.nodes[last.state + 1].transitions[last.letterID + 1]>>
                 /\ last.ret[1] \in 0..(DFASize(dfa) - 1)
            ELSE /\ thrown = "Error"
                 /\ last.ret = <<>>

\* a go from the state just past the last one, by a letter of the alphabet
GoWitness ==
    /\ last.op = "go"
    /\ last.dfa = "col"
    /\ last.state = DFASize(matcher.colDFA)
    /\ last.letterID = 0
    /\ thrown = "Error"

\* C16: for the row regex and the column regex of every PatternMatcher and every
\* input string of at most MaxWordLen letters, the DFA returned by
\* Regex.compile, run from state 0, ends in a state whose accept-ID set equals
\* the set of accept labels the Thompson NFA emits on that string.
DFAEquivalence ==
    last.op = "run" =>
        /\ last.state \in 0..(DFASize(DFAOf(matcher, last.dfa)) - 1)
        /\ Range(getAcceptIDs(DFAOf(matcher, last.dfa), last.state)) = last.emitted

\* a string on which the column NFA emits two labels at once
DFAEquivalenceWitness ==
    /\ last.op = "run"
    /\ last.dfa = "col"
    /\ Len(last.word) = MaxWordLen
    /\ Cardinality(last.emitted) >= 2

\* the pairs of E whose members still agree after any one letter
Agreeing(dfa, E) ==
    {pq \in E : \A c \in 0..(dfa.alphabetSize - 1) :
                    <<dfa.nodes[pq[1] + 1].transitions[c + 1],
                      dfa.nodes[pq[2] + 1].transitions[c + 1]>> \in E}

RECURSIVE AgreeingForever(_, _)
AgreeingForever(dfa, E) ==
    IF Agreeing(dfa, E) = E THEN E ELSE AgreeingForever(dfa, Agreeing(dfa, E))

\* the pairs of states that no input string tells apart: on every string the
\* two reach states with the same set of accept IDs
Indistinguishable(dfa) ==
    AgreeingForever(dfa,
        {pq \in (0..(DFASize(dfa) - 1)) \X (0..(DFASize(dfa) - 1)) :
            Range(dfa.nodes[pq[1] + 1].acceptIDs) = Range(dfa.nodes[pq[2] + 1].acceptIDs)})

\* C17: when the worklist loop of DFA.minimise runs to exhaustion (it does not
\* return by the shortcut), two states of the DFA are in the same block of the
\* partition if and only if they are indistinguishable; the DFA returned has one
\* state per class of indistinguishable states, all of them told apart by
\* some string: the fewest states possible.
PartitionCorrect ==
    (last.op = "minimise" /\ ~last.full) =>
        /\ \A p, q \in DOMAIN last.block :
               (last.block[p] = last.block[q]) <=> (<<p, q>> \in Indistinguishable(last.input))
        /\ DFASize(last.output) =
               Cardinality({{q \in DOMAIN last.block : <<p, q>> \in Indistinguishable(last.input)} :
                               p \in DOMAIN last.block})
        /\ \A pq \in Indistinguishable(last.output) : pq[1] = pq[2]

\* a minimise that ran to exhaustion and merged two states
PartitionWitness ==
    /\ last.op = "minimise"
    /\ ~last.full
    /\ \E p, q \in DOMAIN last.block : p # q /\ last.block[p] = last.block[q]
    /\ DFASize(last.output) < DFASize(last.input)

\* the accept IDs of a state of colDFA, as a set
AcceptSet(state) == Range(getAcceptIDs(matcher.colDFA, state))

\* C18: for every two states p, q of colDFA with accept sets P and Q,
\* getAcceptSetDiff(p, q) holds exactly the accept IDs in P and not in Q, each
\* once: the diff united with (P intersect Q) is P, and the diff is disjoint
\* from Q.
DiffLaw ==
    last.op = "getAcceptSetDiff" =>
        /\ Range(last.ret) \cup (AcceptSet(last.pState) \cap AcceptSet(last.qState))
               = AcceptSet(last.pState)
        /\ Range(last.ret) \cap AcceptSet(last.qState) = {}
        /\ Range(last.ret) = AcceptSet(last.pState) \ AcceptSet(last.qState)
        /\ Cardinality(Range(last.ret)) = Len(last.ret)

\* two states whose accept sets overlap, the first holding an ID the second lacks
DiffLawWitness ==
    /\ last.op = "getAcceptSetDiff"
    /\ last.ret # <<>>
    /\ AcceptSet(last.pState) \cap AcceptSet(last.qState) # {}

----------------------------------------------------------------------------
(* Work and the worked example *)

\* the work of the recompute the last edit set off: recompute is called on the
\* state as it was before the call, with the cells written
LastWork ==
    recomputeWork(matcher, width, height, [prev EXCEPT !.grid = grid],
                  last.calls[1][1], last.calls[1][2], last.calls[1][3], last.calls[1][4])

\* a and b: the largest width and the largest height of a pattern
MaxPatternWidth ==
    CHOOSE a \in {matcher.patterns[k].width : k \in DOMAIN matcher.patterns} :
        \A k \in DOMAIN matcher.patterns : matcher.patterns[k].width <= a
MaxPatternHeight ==
    CHOOSE b \in {matcher.patterns[k].height : k \in DOMAIN matcher.patterns} :
        \A k \in DOMAIN matcher.patterns : matcher.patterns[k].height <= b

\* m: the matches the last edit made or broke
MadeOrBroken ==
    Cardinality({pi \in PatternIDs \X (0..(width * height - 1)) :
        (pi[2] \in Members(At(matchIndices, pi[1]))) # (pi[2] \in Members(At(prev.matchIndices, pi[1])))})

\* C19: recompute(startX, startY, endX, endY), called for an edit of a state in
\* which the invariants held, makes at most (w + a) rowDFA steps in each of the
\* h rows of the rectangle, at most (h + b) colDFA steps in each of at most
\* (w + a) columns, and exactly m add/delete calls on matchIndices, each of
\* which really adds or removes; w, h are the rectangle's width and height,
\* a, b the largest pattern width and height, m the matches made or broken.
WorkBound ==
    (Edited /\ thrown = "none") =>
        LET w == last.calls[1][3] - last.calls[1][1]
            h == last.calls[1][4] - last.calls[1][2]
        IN  /\ LastWork.S = Current
            /\ Len(LastWork.rowSteps) = h
            /\ \A k \in DOMAIN LastWork.rowSteps : LastWork.rowSteps[k] <= w + MaxPatternWidth
            /\ Len(LastWork.colSteps) <= w + MaxPatternWidth
            /\ \A k \in DOMAIN LastWork.colSteps : LastWork.colSteps[k] <= h + MaxPatternHeight
            /\ LastWork.calls = MadeOrBroken
            /\ LastWork.real = LastWork.calls

\* an edit at the right of a grid wider than w + a: the row scan stopped before
\* the left edge after exactly w + a steps, and matches were made or broken
WorkBoundWitness ==
    /\ Edited
    /\ thrown = "none"
    /\ last.calls[1][3] - last.calls[1][1] + MaxPatternWidth < last.calls[1][3]
    /\ \E k \in DOMAIN LastWork.rowSteps :
           LastWork.rowSteps[k] = last.calls[1][3] - last.calls[1][1] + MaxPatternWidth
    /\ LastWork.calls >= 2

\* the grid is the row "WBWBW" and the only pattern is "W*W"
ExampleGrid ==
    /\ cat = ExampleCat
    /\ width = Len(ExampleRow)
    /\ height = 1
    /\ \A x \in 0..(width - 1) : SymbolAt(grid, x, 0) = ExampleRow[x + 1]

\* C20, as stated: with alphabet "BW" and the single pattern "W*W", a 5x1 grid
\* holding "WBWBW" has 3 matches, at (0,0), (1,0) and (2,0).
ExampleThreeMatches ==
    ExampleGrid =>
        /\ countMatches(Current, 0) = 3
        /\ Members(At(matchIndices, 0)) =
               {index(width, height, 0, 0), index(width, height, 1, 0), index(width, height, 2, 0)}

\* C20, as the code has it: with alphabet "BW" and the single pattern "W*W", a
\* 5x1 grid holding "WBWBW" has 2 matches, at (0,0) and (2,0); at (1,0) the
\* cell is B where the pattern has W.
ExampleTwoMatches ==
    ExampleGrid =>
        /\ countMatches(Current, 0) = 2
        /\ Members(At(matchIndices, 0)) = {index(width, height, 0, 0), index(width, height, 2, 0)}
        /\ (last.op = "countMatches" => last.ret = <<2>>)

\* countMatches called on the grid "WBWBW"
ExampleWitness ==
    /\ ExampleGrid
    /\ last.op = "countMatches"
    /\ last.arg = 0

----------------------------------------------------------------------------
(* Laws of recompute *)

\* a set(x, y, v) has just returned and the next call is set(x, y, u), u being
\* the symbol the cell held before the first of the two
SetAndSetBack ==
    /\ last.op = "set"
    /\ thrown = "none"
    /\ last'.op = "set"
    /\ thrown' = "none"
    /\ last'.x = last.x
    /\ last'.y = last.y
    /\ last'.arg = SymbolAt(prev.grid, last.x, last.y)

\* C21: from any reachable state, for any cell (x, y) holding u and any symbol
\* v, set(x, y, v) followed by set(x, y, u) restores the cells, rowStates,
\* colStates, every matchIndices[p] as a set and every countMatches(p) to their
\* values before the two calls.
EditRoundTrip ==
    [][SetAndSetBack =>
          /\ grid' = prev.grid
          /\ rowStates' = prev.rowStates
          /\ colStates' = prev.colStates
          /\ \A p \in PatternIDs :
                /\ Members(At(matchIndices', p)) = Members(At(prev.matchIndices, p))
                /\ SetSize(At(matchIndices', p)) = countMatches(prev, p)]_vars

\* two edits after construction, the second a set that put back the symbol the
\* first had replaced, breaking again the matches the first had made or making
\* again those it had broken
EditRoundTripWitness ==
    /\ edits = 2
    /\ last.op = "set"
    /\ last.arg = Catalogues[cat].alphabet[1]
    /\ \A i \in DOMAIN grid : grid[i] = 0
    /\ Cardinality({i \in DOMAIN grid : prev.grid[i] # grid[i]}) = 1
    /\ At(prev.grid, index(width, height, last.x, last.y)) # 0
    /\ matchIndices # prev.matchIndices


\* recompute(0, 0, width, height), called on the state as it stands; the record of
\* the call keeps which call came before it and the state that one started from
RecomputeAll ==
    LET r == recompute(matcher, width, height, Current, 0, 0, width, height)
    IN  /\ Become(r)
        /\ prev' = Current
        /\ heard' = << >>
        /\ thrown' = "none"
        /\ last' = [op |-> "recompute", x |-> 0, y |-> 0, arg |-> << >>, before |-> grid,
                     calls |-> <<<<0, 0, width, height>>>>, ret |-> << >>,
                     after |-> [op |-> last.op, x |-> last.x, y |-> last.y, from |-> prev]]
        /\ UNCHANGED <<cat, matcher, width, height, onChange, edits, gridAlphabet, held>>

NextRecompute == GridSet \/ GridSetPattern \/ RecomputeAll

SpecRecompute == Init /\ [][NextRecompute]_vars

\* the work a recompute(0, 0, width, height) does when called on the state as it stands
WorkAll == recomputeWork(matcher, width, height, Current, 0, 0, width, height)

\* the constructor's recompute(0, 0, width, height), or a later one, has just returned
\* and the next call is recompute(0, 0, width, height) again
RecomputeTwice ==
    /\ last.op \in {"makeState", "recompute"}
    /\ last'.op = "recompute"

\* C22: recompute(0, 0, W, H) is idempotent: called a second time with no edit in
\* between it leaves rowStates, colStates and matchIndices as the first call left
\* them, changes no row or column state and adds or removes no match
RecomputeIdempotent ==
    [][RecomputeTwice =>
          /\ rowStates' = rowStates
          /\ colStates' = colStates
          /\ matchIndices' = matchIndices
          /\ grid' = grid
          /\ WorkAll.S = Current
          /\ WorkAll.calls = 0
          /\ WorkAll.real = 0]_vars

\* a second recompute(0, 0, W, H) has returned on a grid where the first one found
\* matches and left row and column states other than 0
RecomputeIdempotentWitness ==
    /\ last.op = "recompute"
    /\ prev = Current
    /\ edits = 0
    /\ \E p \in PatternIDs : SetSize(At(matchIndices, p)) > 0
    /\ \E i \in DOMAIN rowStates : rowStates[i] # 0
    /\ \E i \in DOMAIN colStates : colStates[i] # 0


\* a set(x, y, v) has returned, its recompute(x, y, x + 1, y + 1) included, and the
\* next call is recompute(0, 0, width, height)
SetThenRecomputeAll ==
    /\ last.op = "set"
    /\ thrown = "none"
    /\ last'.op = "recompute"

\* the state right after the write of the cell, before any recompute
CellWritten == [prev EXCEPT !.grid = grid]

\* recompute(0, 0, width, height) alone on the state right after the write
RecomputeAllAlone == recompute(matcher, width, height, CellWritten, 0, 0, width, height)

\* C23: locality: after an edit of cell (x, y), recompute(x, y, x + 1, y + 1)
\* followed by recompute(0, 0, W, H) gives the same rowStates, colStates and match
\* sets as recompute(0, 0, W, H) alone, and the full recompute finds nothing left
\* to change after the single-cell one
Locality ==
    [][SetThenRecomputeAll =>
          /\ rowStates' = RecomputeAllAlone.rowStates
          /\ colStates' = RecomputeAllAlone.colStates
          /\ \A p \in PatternIDs :
                Members(At(matchIndices', p)) = Members(At(RecomputeAllAlone.matchIndices, p))
          /\ rowStates' = rowStates
          /\ colStates' = colStates
          /\ matchIndices' = matchIndices]_vars

\* a full recompute has returned after a set that changed row states left of the
\* cell, column states above it and the matches
LocalityWitness ==
    /\ last.op = "recompute"
    /\ last.after.op = "set"
    /\ last.after.x > 0
    /\ last.after.y > 0
    /\ At(last.after.from.grid, index(width, height, last.after.x, last.after.y))
          # At(grid, index(width, height, last.after.x, last.after.y))
    /\ At(last.after.from.rowStates, index(width, height, last.after.x - 1, last.after.y))
          # At(rowStates, index(width, height, last.after.x - 1, last.after.y))
    /\ At(last.after.from.colStates, index(width, height, last.after.x, last.after.y - 1))
          # At(colStates, index(width, height, last.after.x, last.after.y - 1))
    /\ last.after.from.matchIndices # matchIndices


----------------------------------------------------------------------------
(* Two states of one matcher *)

\* a call of set or setPattern on the grid of the second state, that ended as r
EditsOther(r) ==
    /\ other' = [other EXCEPT !.state = r.state]
    /\ grid' = Aliased(Current, r.state, other.shares).grid
    /\ rowStates' = Aliased(Current, r.state, other.shares).rowStates
    /\ colStates' = Aliased(Current, r.state, other.shares).colStates
    /\ matchIndices' = Aliased(Current, r.state, other.shares).matchIndices
    /\ prev' = other.state
    /\ heard' = r.heard
    /\ thrown' = r.error
    /\ edits' = edits + 1
    /\ UNCHANGED <<cat, matcher, width, height, onChange, held>>

\* the second state's grid.set(x, y, value); its only listener is its own recompute
OtherSet ==
    \E x \in 0..(width - 1), y \in 0..(height - 1), value \in Range(Catalogues[cat].alphabet) :
        LET r == set(<<0>>, matcher, gridAlphabet, width, height, other.state, x, y, value)
        IN  /\ edits < MaxEdits
            /\ EditsOther(r)
            /\ gridAlphabet' = setAlphabet(gridAlphabet, width, height, x, y, value)
            /\ last' = Op("other.set", x, y, value, other.state.grid, r.calls, <<>>)

\* the second state's grid.setPattern(x, y, pattern)
OtherSetPattern ==
    \E w \in 0..(Len(Catalogues[cat].writes) - 1) :
        LET pattern == At(WritePatterns(cat), w)
        IN  \E x \in 0..(width - pattern.width), y \in 0..(height - pattern.height) :
                LET r == setPattern(<<0>>, matcher, width, height, other.state, x, y, pattern)
                IN  /\ edits < MaxEdits
                    /\ EditsOther(r)
                    /\ UNCHANGED gridAlphabet
                    /\ last' = Op("other.setPattern", x, y, w, other.state.grid, r.calls, <<>>)

NextTwoStates == GridSet \/ GridSetPattern \/ OtherSet \/ OtherSetPattern

SpecTwoStates == Init /\ [][NextTwoStates]_vars

----------------------------------------------------------------------------
(* An IDMap with a key function *)

MaxInserts == 4

\* the elements a client passes: two of them with the same key
Elements == {<<"a", 1>>, <<"a", 2>>, <<"b", 1>>, <<"c", 1>>}

\* the keyFunc of IDMap.withKey(keyFunc): distinct elements may have one key
keyFunc(x) == x[1]

\* a getOrCreateID that pushes the element whether or not its key is in the map
getOrCreateIDAlways(map, x) ==
    [map |-> [arr |-> Push(map.arr, x), ids |-> Push(map.ids, <<keyFunc(x), Len(map.arr)>>)],
     id |-> Len(map.arr)]

\* IDMap.getOrCreateID(x) of a map made by IDMap.withKey(keyFunc): the map afterwards
\* and the ID returned
getOrCreateID(map, x) ==
    [map |-> IDMapAdd(map, x, keyFunc(x)), id |-> IDMapGetOrCreateID(map, x, keyFunc(x))]

\* the matcher and its states, which a call on a held object leaves alone
stateVars == <<cat, matcher, width, height, grid, rowStates, colStates, matchIndices,
               onChange, prev, heard, thrown, gridAlphabet, other>>

\* the elements passed to getOrCreateID so far, in order
Inserted == IF last.op \in {"getOrCreateID", "getByID"} THEN last.inserted ELSE << >>

\* idMap.getOrCreateID(x)
GetOrCreateID ==
    \E x \in Elements :
        /\ Len(Inserted) < MaxInserts
        /\ idMap' = getOrCreateID(idMap, x).map
        /\ last' = [op |-> "getOrCreateID", x |-> x, inserted |-> Push(Inserted, x),
                    sizeBefore |-> IDMapSize(idMap),
                    idBefore |-> IDMapLookup(idMap, keyFunc(x)),
                    ret |-> getOrCreateID(idMap, x).id]
        /\ UNCHANGED <<stateVars, edits, sampleSet, part, minimising>>

\* idMap.getByID(id), with id in range
GetByID ==
    \E id \in 0..(IDMapSize(idMap) - 1) :
        /\ last.op = "getOrCreateID"
        /\ last' = [op |-> "getByID", x |-> id, inserted |-> Inserted,
                    ret |-> IDMapGetByID(idMap, id)]
        /\ UNCHANGED <<stateVars, edits, held>>

InitIDMap == Init /\ cat = 1 /\ width = 1 /\ height = 1

NextIDMap == GetOrCreateID \/ GetByID

SpecIDMap == InitIDMap /\ [][NextIDMap]_vars

RECURSIVE FirstOfEachKey(_, _, _)
\* the elements of `xs` from position k on whose key no earlier element has
FirstOfEachKey(xs, k, seen) ==
    IF k >= Len(xs) THEN << >>
    ELSE IF keyFunc(At(xs, k)) \in seen THEN FirstOfEachKey(xs, k + 1, seen)
    ELSE <<At(xs, k)>> \o FirstOfEachKey(xs, k + 1, seen \cup {keyFunc(At(xs, k))})

\* C25: an IDMap is an insertion-ordered bijection: after any sequence of
\* getOrCreateID calls the distinct keys have the distinct IDs 0..size-1 in order of
\* first insertion; getOrCreateID of a key already present returns its ID and
\* leaves the size as it was; getByID(getOrCreateID(x)) has the key of x
IDMapBijection ==
    /\ idMap.arr = FirstOfEachKey(Inserted, 0, {})
    /\ IDMapSize(idMap) = Cardinality({keyFunc(x) : x \in Range(Inserted)})
    /\ \A i, j \in 0..(IDMapSize(idMap) - 1) :
          i # j => keyFunc(IDMapGetByID(idMap, i)) # keyFunc(IDMapGetByID(idMap, j))
    /\ \A i \in 0..(IDMapSize(idMap) - 1) :
          IDMapLookup(idMap, keyFunc(IDMapGetByID(idMap, i))) = i
    /\ \A x \in Elements :
          IDMapGetID(idMap, keyFunc(x)) \in (-1)..(IDMapSize(idMap) - 1)
    /\ last.op = "getOrCreateID" =>
          /\ last.ret \in 0..(IDMapSize(idMap) - 1)
          /\ keyFunc(IDMapGetByID(idMap, last.ret)) = keyFunc(last.x)
          /\ last.idBefore # -1 =>
                /\ last.ret = last.idBefore
                /\ IDMapSize(idMap) = last.sizeBefore
          /\ last.idBefore = -1 =>
                /\ last.ret = last.sizeBefore
                /\ IDMapSize(idMap) = last.sizeBefore + 1
    /\ last.op = "getByID" => last.ret = At(FirstOfEachKey(Inserted, 0, {}), last.x)

\* getOrCreateID has just been called with an element whose key came into the map
\* with another element, after a key inserted later than that one
IDMapBijectionWitness ==
    /\ last.op = "getOrCreateID"
    /\ last.idBefore = 0
    /\ IDMapGetByID(idMap, 0) # last.x
    /\ IDMapSize(idMap) = 3
    /\ Len(Inserted) = MaxInserts


----------------------------------------------------------------------------
(* A SampleableSet under add and delete *)

MaxElement == 3

\* the set the calls so far describe: what was added and not deleted since
Added == IF last.op \in {"add", "delete"} THEN last.added ELSE {}

\* sampleSet.add(x)
SampleableSetAdd ==
    \E x \in 0..MaxElement :
        /\ sampleSet' = SetAdd(sampleSet, x)
        /\ last' = [op |-> "add", x |-> x, before |-> sampleSet, added |-> Added \cup {x}]
        /\ UNCHANGED <<stateVars, edits, idMap, part, minimising>>

\* sampleSet.delete(x)
SampleableSetDelete ==
    \E x \in 0..MaxElement :
        /\ sampleSet' = SetDelete(sampleSet, x)
        /\ last' = [op |-> "delete", x |-> x, before |-> sampleSet, added |-> Added \ {x}]
        /\ UNCHANGED <<stateVars, edits, idMap, part, minimising>>

InitSampleableSet == Init /\ cat = 1 /\ width = 1 /\ height = 1

NextSampleableSet == SampleableSetAdd \/ SampleableSetDelete

SpecSampleableSet == InitSampleableSet /\ [][NextSampleableSet]_vars

\* the arr of `sset` holds exactly the elements of `members`, each once, and indices.get(x) = i
\* if and only if arr[i] = x
Represents(sset, members) ==
    /\ Range(sset.arr) = members
    /\ Len(sset.arr) = Cardinality(members)
    /\ SetSize(sset) = Cardinality(members)
    /\ \A x \in 0..MaxElement : SetHas(sset, x) <=> x \in members
    /\ \A x \in 0..MaxElement, i \in 0..MaxElement :
          <<x, i>> \in sset.indices <=> (i < Len(sset.arr) /\ At(sset.arr, i) = x)
    /\ \A e \in sset.indices : e[1] \in 0..MaxElement /\ e[2] \in 0..MaxElement

\* C26: the representation invariant of SampleableSet: after any sequence of add
\* and delete calls arr holds exactly the members, without duplicates,
\* indices.get(x) = i if and only if arr[i] = x, and size() is the number of
\* members; add of a present element and delete of an absent one change nothing;
\* delete moves the last element into the hole and sets its index to the hole's
SampleableSetInvariant ==
    /\ Represents(sampleSet, Added)
    /\ (last.op = "add" /\ SetHas(last.before, last.x)) => sampleSet = last.before
    /\ (last.op = "delete" /\ ~SetHas(last.before, last.x)) => sampleSet = last.before
    /\ (last.op = "delete" /\ SetHas(last.before, last.x)) =>
          LET i == MapGet(last.before.indices, last.x)
              j == Len(last.before.arr) - 1
              y == At(last.before.arr, j)
          IN  /\ Len(sampleSet.arr) = j
              /\ i # j => (At(sampleSet.arr, i) = y /\ MapGet(sampleSet.indices, y) = i)
              /\ \A k \in 0..(j - 1) : k # i => At(sampleSet.arr, k) = At(last.before.arr, k)

\* delete has just removed an element that was neither the last nor the only one
\* of arr, so another element was moved into its place
SampleableSetWitness ==
    /\ last.op = "delete"
    /\ SetHas(last.before, last.x)
    /\ Len(last.before.arr) >= 3
    /\ MapGet(last.before.indices, last.x) = 0
    /\ At(sampleSet.arr, 0) = At(last.before.arr, Len(last.before.arr) - 1)


----------------------------------------------------------------------------
(* Laws of minimise and of Partition *)

\* C27: whenever minimise returns the DFA it was called on because the partition
\* reached n blocks, that DFA is already minimal: no two distinct states of it are
\* indistinguishable
ShortcutMinimal ==
    (last.op = "minimise" /\ last.full) =>
        /\ last.output = last.input
        /\ \A p, q \in DOMAIN last.block : p # q => last.block[p] # last.block[q]
        /\ \A pq \in Indistinguishable(last.input) : pq[1] = pq[2]

\* a minimise of a DFA of four states or more that returned by the shortcut
ShortcutMinimalWitness ==
    /\ last.op = "minimise"
    /\ last.full
    /\ DFASize(last.input) >= 4
    /\ last.output = last.input


\* the accept IDs the DFA emits after reading `word` from state 0
DFAEmits(dfa, word) == Range(getAcceptIDs(dfa, DFARun(dfa, 0, word)))

\* C28: the start state is preserved: the subset construction gives ID 0 to the
\* epsilon-closure of the NFA's start node, and in the DFA minimise returns state 0
\* stands for the block that holds state 0 of the DFA it was called on, whichever
\* representative the partition picks for that block; so a run from state 0 of
\* either DFA emits what the NFA emits from its start node
StartStatePreserved ==
    last.op = "minimise" =>
        LET nfa == NFAOf(matcher, PatternsOf(cat), last.dfa)
        IN  /\ DFAEmits(last.input, << >>) =
                   UNION {Range(nfa.nodes[s + 1].acceptSet) :
                             s \in NFAClosure(nfa.nodes, {nfa.startID})}
            /\ getAcceptIDs(last.output, 0) = getAcceptIDs(last.input, last.block[0])
            /\ \A word \in Words(last.input.alphabetSize, MaxWordLen) :
                  /\ DFAEmits(last.input, word) = NFAEmits(nfa, word)
                  /\ DFAEmits(last.output, word) = DFAEmits(last.input, word)

\* a minimise that ran to exhaustion, merged states, and whose partition does not
\* list the block of state 0 first
StartStateWitness ==
    /\ last.op = "minimise"
    /\ ~last.full
    /\ DFASize(last.output) < DFASize(last.input)
    /\ last.first # last.block[0]


----------------------------------------------------------------------------
(* A Partition under refine and pollUnprocessed *)

MaxN == 5

MaxPartitionCalls == 3

\* the n of new Partition(n)
PartitionN(P) == Len(P.arr)

\* part.refine(set), with any set of numbers below n
PartitionRefine ==
    \E S \in SUBSET (0..(PartitionN(part) - 1)) :
        /\ edits < MaxPartitionCalls
        /\ edits' = edits + 1
        /\ part' = refine(part, ISetOfSet(PartitionN(part), S))
        /\ last' = [op |-> "refine", set |-> S, before |-> part, ret |-> << >>]
        /\ UNCHANGED <<stateVars, idMap, sampleSet, minimising>>

\* part.pollUnprocessed(); one more of these may follow the last refine
PartitionPoll ==
    /\ edits <= MaxPartitionCalls
    /\ edits' = edits + 1
    /\ part' = pollUnprocessed(part).P
    /\ last' = [op |-> "pollUnprocessed", set |-> {}, before |-> part,
                ret |-> IF pollUnprocessed(part).found THEN <<pollUnprocessed(part).a>>
                        ELSE << >>]
    /\ UNCHANGED <<stateVars, idMap, sampleSet, minimising>>

InitPartition ==
    /\ cat = 1
    /\ width = 1
    /\ height = 1
    /\ Constructed
    /\ idMap = IDMapEmpty
    /\ sampleSet = SampleableSet
    /\ \E n \in 1..MaxN : part = Partition(n)
    /\ minimising = NoRun

NextPartition == PartitionRefine \/ PartitionPoll

SpecPartition == InitPartition /\ [][NextPartition]_vars

\* subsets[i]
SubsetAt(P, i) == At(P.objs, At(P.subsets, i))

\* the members of a subset: arr[start..end)
BlockOf(P, obj) == {At(P.arr, k) : k \in obj.start..(obj.end - 1)}

\* the blocks of the partition
Blocks(P) == {BlockOf(P, SubsetAt(P, i)) : i \in 0..(countSubsets(P) - 1)}

\* C29: the structural invariants of Partition: after construction and after every
\* refine and pollUnprocessed, arr is a permutation of 0..n-1 and indices its
\* inverse; every block is a non-empty range [start, end) of arr and the blocks
\* tile [0, n); map[x] is the block whose range holds indices[x]; and
\* subsets[i].index = i
PartitionInvariant ==
    LET n == PartitionN(part)
    IN  /\ Len(part.indices) = n
        /\ Len(part.map) = n
        /\ Range(part.arr) = 0..(n - 1)
        /\ \A x \in 0..(n - 1) : At(part.arr, At(part.indices, x)) = x
        /\ \A i \in 0..(n - 1) : At(part.indices, At(part.arr, i)) = i
        /\ \A i \in 0..(countSubsets(part) - 1) :
              /\ SubsetAt(part, i).index = i
              /\ 0 <= SubsetAt(part, i).start
              /\ SubsetAt(part, i).start < SubsetAt(part, i).end
              /\ SubsetAt(part, i).end <= n
        /\ \A k \in 0..(n - 1) :
              Cardinality({i \in 0..(countSubsets(part) - 1) :
                              SubsetAt(part, i).start <= k /\ k < SubsetAt(part, i).end}) = 1
        /\ \A i, j \in 0..(countSubsets(part) - 1) : i # j => At(part.subsets, i) # At(part.subsets, j)
        /\ \A x \in 0..(n - 1) :
              /\ At(part.map, x) \in Range(part.subsets)
              /\ At(part.objs, At(part.map, x)).start <= At(part.indices, x)
              /\ At(part.indices, x) < At(part.objs, At(part.map, x)).end

\* three calls have been made, the last a refine that emptied and deleted a subset
\* and split another, and the partition has three blocks or more in an order of arr
\* other than 0, 1, 2, ...
PartitionInvariantWitness ==
    /\ edits = MaxPartitionCalls
    /\ last.op = "refine"
    /\ countSubsets(part) >= 3
    /\ Len(part.objs) > countSubsets(part) + 1
    /\ \E i \in 0..(PartitionN(part) - 1) : At(part.arr, i) # i
    /\ \E i \in 0..(countSubsets(part) - 1) : At(part.subsets, i) # i


\* x and y are in the same block of P
SameBlock(P, x, y) == At(P.map, x) = At(P.map, y)

\* the blocks of P that `S` partly intersects
PartlyIn(P, S) == {b \in Blocks(P) : b \cap S # {} /\ b \ S # {}}

\* C30: refine(S) splits exactly the blocks that partly intersect S: afterwards two
\* elements are in the same block if and only if they were before and both are in
\* S or both outside it; a block wholly inside or wholly outside S keeps its
\* members; the number of blocks grows by the number of blocks S partly intersects
RefineSplitsExactly ==
    last.op = "refine" =>
        /\ \A x, y \in 0..(PartitionN(part) - 1) :
              SameBlock(part, x, y) <=>
                  (SameBlock(last.before, x, y) /\ (x \in last.set <=> y \in last.set))
        /\ \A b \in Blocks(last.before) \ PartlyIn(last.before, last.set) : b \in Blocks(part)
        /\ \A b \in PartlyIn(last.before, last.set) :
              /\ b \cap last.set \in Blocks(part)
              /\ b \ last.set \in Blocks(part)
        /\ countSubsets(part) =
              countSubsets(last.before) + Cardinality(PartlyIn(last.before, last.set))
        /\ Cardinality(Blocks(part)) = countSubsets(part)

\* a refine by a set that partly intersects two blocks and holds a third whole
RefineSplitsWitness ==
    /\ last.op = "refine"
    /\ Cardinality(PartlyIn(last.before, last.set)) = 2
    /\ \E b \in Blocks(last.before) : b \subseteq last.set
    /\ countSubsets(part) = countSubsets(last.before) + 2


\* the subsets of P, each as its members and its isUnprocessed flag
Flagged(P) ==
    {[members |-> BlockOf(P, SubsetAt(P, i)), flag |-> SubsetAt(P, i).isUnprocessed] :
        i \in 0..(countSubsets(P) - 1)}

\* the flag of the block of P with these members
FlagOf(P, members) == [members |-> members, flag |-> TRUE] \in Flagged(P)

\* every subset whose flag is set is on the unprocessed stack
FlaggedAreStacked(P) ==
    \A i \in 0..(countSubsets(P) - 1) :
        SubsetAt(P, i).isUnprocessed => At(P.subsets, i) \in Range(P.unprocessed)

\* C31: the worklist rule of refine: when a block is split into two non-empty
\* parts, both parts are flagged afterwards if the block was flagged, and exactly
\* one part, one that is no larger than the other, is flagged if it was not; a
\* block that is not split keeps its flag; every flagged block is on the
\* unprocessed stack
WorklistRule ==
    /\ FlaggedAreStacked(part)
    /\ last.op = "refine" =>
          \A B \in Flagged(last.before) :
              LET inside == B.members \cap last.set
                  outside == B.members \ last.set
              IN  IF inside # {} /\ outside # {}
                  THEN IF B.flag
                       THEN FlagOf(part, inside) /\ FlagOf(part, outside)
                       ELSE /\ FlagOf(part, inside) # FlagOf(part, outside)
                            /\ FlagOf(part, inside) => Cardinality(inside) <= Cardinality(outside)
                            /\ FlagOf(part, outside) => Cardinality(outside) <= Cardinality(inside)
                  ELSE FlagOf(part, B.members) = B.flag

\* a refine that split a block that was not flagged into parts of different sizes,
\* split a flagged block too, and left the smaller part of the first flagged
WorklistRuleWitness ==
    /\ last.op = "refine"
    /\ \E B \in Flagged(last.before) :
          /\ ~B.flag
          /\ B.members \cap last.set # {}
          /\ B.members \ last.set # {}
          /\ Cardinality(B.members \cap last.set) # Cardinality(B.members \ last.set)
    /\ \E B \in Flagged(last.before) :
          /\ B.flag
          /\ B.members \cap last.set # {}
          /\ B.members \ last.set # {}


\* the positions (from 0) of the unprocessed stack of P that hold a flagged subset
FlaggedEntries(P) ==
    {k \in 0..(Len(P.unprocessed) - 1) : At(P.objs, At(P.unprocessed, k)).isUnprocessed}

\* the topmost flagged entry of the unprocessed stack of P
TopFlagged(P) == CHOOSE k \in FlaggedEntries(P) : \A j \in FlaggedEntries(P) : j <= k

\* C32: pollUnprocessed pops entries until it finds one whose flag is set, clears
\* that flag and returns a copy of that block's elements; the entries it skips are
\* those of deleted (empty) subsets; the array returned is never empty; it returns
\* none exactly when no block has its flag set
PollRule ==
    last.op = "pollUnprocessed" =>
        /\ part.arr = last.before.arr
        /\ part.indices = last.before.indices
        /\ part.map = last.before.map
        /\ part.subsets = last.before.subsets
        /\ (last.ret = << >>) <=> (\A B \in Flagged(last.before) : ~B.flag)
        /\ last.ret = << >> => (part.unprocessed = << >> /\ part.objs = last.before.objs)
        /\ last.ret # << >> =>
              LET k == TopFlagged(last.before)
                  subset == At(last.before.unprocessed, k)
                  obj == At(last.before.objs, subset)
              IN  /\ last.ret[1] # << >>
                  /\ last.ret[1] = SubSeq(last.before.arr, obj.start + 1, obj.end)
                  /\ subset \in Range(last.before.subsets)
                  /\ part.unprocessed = SubSeq(last.before.unprocessed, 1, k)
                  /\ part.objs = SetAt(last.before.objs, subset, [obj EXCEPT !.isUnprocessed = FALSE])
                  /\ Flagged(part) =
                        (Flagged(last.before) \ {[members |-> Range(last.ret[1]), flag |-> TRUE]})
                            \cup {[members |-> Range(last.ret[1]), flag |-> FALSE]}
        /\ \A k \in 0..(Len(last.before.unprocessed) - 1) :
              ~At(last.before.objs, At(last.before.unprocessed, k)).isUnprocessed =>
                  /\ At(last.before.unprocessed, k) \notin Range(last.before.subsets)
                  /\ At(last.before.objs, At(last.before.unprocessed, k)).start =
                         At(last.before.objs, At(last.before.unprocessed, k)).end

\* a pollUnprocessed that skipped the entry of a deleted subset and returned a
\* block further down the stack
PollRuleWitness ==
    /\ last.op = "pollUnprocessed"
    /\ last.ret # << >>
    /\ Len(part.unprocessed) < Len(last.before.unprocessed) - 1


----------------------------------------------------------------------------
(* Accept sets *)

\* the list is in ascending order
Ascending(xs) == \A i, j \in 1..Len(xs) : i < j => xs[i] <= xs[j]

\* every acceptIDs list of the DFA is in ascending order
AcceptIDsAscending(dfa) ==
    \A s \in 0..(DFASize(dfa) - 1) : Ascending(getAcceptIDs(dfa, s))

\* every entry of the matcher's diff table is in ascending order
DiffsAscending(pm) ==
    \A i \in 1..Len(pm.acceptSetDiffs) : Ascending(pm.acceptSetDiffs[i])

Distinct(xs) == Cardinality(Range(xs)) = Len(xs)

RowFits(cells, r, x, y) ==
    /\ x + r.width <= width
    /\ \A dx \in 0..(r.width - 1) :
           \/ At(r.rasterData, dx) < 0
           \/ At(r.rasterData, dx) = At(cells, x + dx + width * y)

\* the row IDs the row DFA accepts in the state stored for the cell (x, y)
RowIDsAt(x, y) == Range(getAcceptIDs(matcher.rowDFA, At(rowStates, x + width * y)))

\* C34: for every cell (x, y) and every distinct row pattern r, the state stored
\* in rowStates for the cell accepts r's row ID exactly when r fits in the row
\* from column x on and its non-wildcard cells equal the grid cells there
RowStage ==
    \A x \in 0..(width - 1), y \in 0..(height - 1) :
        \A rowID \in 0..(Len(matcher.rowPatterns) - 1) :
            rowID \in RowIDsAt(x, y) <=> RowFits(grid, At(matcher.rowPatterns, rowID), x, y)

\* after an edit, one cell accepts a row pattern with a wildcard while at the
\* right edge the same pattern, whose only cell inside the grid matches, is not
\* accepted because its wildcard would fall outside
RowStageWitness ==
    /\ edits > 0
    /\ \E y \in 0..(height - 1), rowID \in 0..(Len(matcher.rowPatterns) - 1) :
           LET r == At(matcher.rowPatterns, rowID)
           IN  /\ r.width = 2
               /\ At(r.rasterData, 1) < 0
               /\ At(r.rasterData, 0) = At(grid, width - 1 + width * y)
               /\ rowID \notin RowIDsAt(width - 1, y)
               /\ \E x \in 0..(width - 2) : rowID \in RowIDsAt(x, y)


\* ---------------------------------------------------------------------
\* Matches lie inside the grid
\* ---------------------------------------------------------------------

\* the cells reported for pattern p, as (x, y) pairs
ReportedAt(p) ==
    {<<i % width, i \div width>> : i \in Members(matchIndices[p + 1])}

\* the cells of pattern p that fall inside the grid when its top-left corner is
\* at (x, y) all match, wildcards matching anything
InsidePartMatches(p, x, y) ==
    LET pattern == At(matcher.patterns, p)
    IN  \A dx \in 0..(pattern.width - 1), dy \in 0..(pattern.height - 1) :
            (x + dx < width /\ y + dy < height) =>
                \/ At(pattern.rasterData, dx + pattern.width * dy) < 0
                \/ At(pattern.rasterData, dx + pattern.width * dy) = At(grid, x + dx + width * (y + dy))

\* C35: a pattern of size w x h is reported at (x, y) only if x + w <= W and
\* y + h <= H, also when the cells that would fall outside the grid are wildcards
MatchesInsideGrid ==
    \A p \in PatternIDs : \A c \in ReportedAt(p) :
        /\ c[1] + At(matcher.patterns, p).width <= width
        /\ c[2] + At(matcher.patterns, p).height <= height

\* after an edit, a pattern is reported somewhere, and at a cell in the last
\* column its part inside the grid matches, only wildcards fall outside, and it
\* is not reported there
MatchesInsideGridWitness ==
    /\ edits > 0
    /\ \E p \in PatternIDs, y \in 0..(height - 1) :
           LET pattern == At(matcher.patterns, p)
           IN  /\ ReportedAt(p) # {}
               /\ pattern.width = 2
               /\ y + pattern.height <= height
               /\ \A dy \in 0..(pattern.height - 1) :
                      At(pattern.rasterData, 1 + pattern.width * dy) < 0
               /\ InsidePartMatches(p, width - 1, y)
               /\ <<width - 1, y>> \notin ReportedAt(p)


\* ---------------------------------------------------------------------
\* DFA.go is called in range
\* ---------------------------------------------------------------------

\* every transition of the DFA leads to one of its states, and every state has
\* one transition per letter
TransitionsValid(dfa) ==
    \A s \in 0..(DFASize(dfa) - 1) :
        /\ Len(At(dfa.nodes, s).transitions) = dfa.alphabetSize
        /\ \A c \in 0..(dfa.alphabetSize - 1) :
               At(At(dfa.nodes, s).transitions, c) \in 0..(DFASize(dfa) - 1)

\* every entry of the array is a value below domainSize that the typed array
\* made for domainSize holds without truncation
HoldsBelow(array, domainSize) ==
    \A i \in 0..(Len(array) - 1) :
        /\ At(array, i) \in 0..(domainSize - 1)
        /\ At(array, i) < UintCapacity(domainSize)

\* the go calls of one full pass over the grid as it stands: the row scan from
\* the right edge and the column scan from the bottom edge, each call a record
\* of the DFA size, alphabet size and the two arguments
GoCallsOfPass ==
    {[size |-> DFASize(matcher.rowDFA), alphabetSize |-> matcher.rowDFA.alphabetSize,
      state |-> IF x = width - 1 THEN 0 ELSE At(rowStates, x + 1 + width * y),
      letterID |-> At(grid, x + width * y)] : x \in 0..(width - 1), y \in 0..(height - 1)}
    \cup
    {[size |-> DFASize(matcher.colDFA), alphabetSize |-> matcher.colDFA.alphabetSize,
      state |-> IF y = height - 1 THEN 0 ELSE At(colStates, x + width * (y + 1)),
      letterID |-> getAcceptSetID(matcher.rowDFA, At(rowStates, x + width * y))] :
         x \in 0..(width - 1), y \in 0..(height - 1)}

\* C36: after construction and after every recompute a valid edit triggers, no
\* call of DFA.go has an argument out of range: every grid cell is below the
\* alphabet size, every rowStates entry below rowDFA.size(), every accept-set ID
\* of rowDFA below the alphabet size of colDFA, every colStates entry below
\* colDFA.size(), and every transition of either DFA leads to a valid state
GoInRange ==
    /\ matcher.rowDFA.alphabetSize = matcher.alphabetSize
    /\ HoldsBelow(grid, matcher.alphabetSize)
    /\ HoldsBelow(rowStates, DFASize(matcher.rowDFA))
    /\ \A s \in 0..(DFASize(matcher.rowDFA) - 1) :
           getAcceptSetID(matcher.rowDFA, s) \in 0..(matcher.colDFA.alphabetSize - 1)
    /\ HoldsBelow(colStates, DFASize(matcher.colDFA))
    /\ TransitionsValid(matcher.rowDFA)
    /\ TransitionsValid(matcher.colDFA)
    /\ \A call \in GoCallsOfPass :
           /\ call.state \in 0..(call.size - 1)
           /\ call.letterID \in 0..(call.alphabetSize - 1)
    /\ thrown = "none"

\* after an edit that changed row and column states, a column state other than
\* the start state is stored and the column DFA has a letter for an accept set
\* of more than one row pattern
GoInRangeWitness ==
    /\ edits > 0
    /\ last.op \in {"set", "setPattern"}
    /\ \E i \in 1..Len(rowStates) : rowStates[i] # 0
    /\ \E i \in 1..Len(colStates) : colStates[i] # 0
    /\ \E i \in 1..Len(rowStates) : Len(getAcceptIDs(matcher.rowDFA, rowStates[i])) > 1


\* ---------------------------------------------------------------------
\* DFA.minimise step by step
\* ---------------------------------------------------------------------

MaxStates == 3
MaxLetters == 2

RECURSIVE DFAFromLoop(_, _, _, _, _)
\* new DFA(alphabetSize, acceptMap, acceptSetMap, nodes) for nodes given by
\* their transitions and acceptIDs, the accept sets interned as toDFA interns them
DFAFromLoop(alphabetSize, acceptCount, given, acceptSetMap, nodes) ==
    IF Len(nodes) >= Len(given)
    THEN [alphabetSize |-> alphabetSize, acceptCount |-> acceptCount,
          acceptSetMap |-> acceptSetMap, nodes |-> nodes]
    ELSE LET node == At(given, Len(nodes))
             key == ISetArrayToBigInt(node.acceptIDs)
         IN  DFAFromLoop(alphabetSize, acceptCount, given,
                         IDMapAdd(acceptSetMap, node.acceptIDs, key),
                         Push(nodes, [transitions |-> node.transitions,
                                      acceptSetID |-> IDMapGetOrCreateID(acceptSetMap, node.acceptIDs, key),
                                      acceptIDs |-> node.acceptIDs]))

\* every DFA of up to MaxStates states over MaxLetters letters with one accept ID
SmallDFAs ==
    UNION {{DFAFromLoop(MaxLetters, 1,
                        [s \in 1..n |-> [transitions |-> t[s],
                                         acceptIDs |-> IF s \in acc THEN <<0>> ELSE <<>>]],
                        IDMapEmpty, <<>>) :
               t \in [1..n -> [1..MaxLetters -> 0..(n - 1)]], acc \in SUBSET (1..n)} :
           n \in 1..MaxStates}

\* the DFAs toDFA hands to minimise when the matchers of the catalogues are compiled
CompiledDFAs ==
    {toDFA(NFAOf(MatcherOf(c), PatternsOf(c), which)) :
        c \in DOMAIN Catalogues, which \in {"row", "col"}}

\* a poll that hands out the topmost flagged block and leaves its flag and the
\* stack as they were
pollStepKeep(P) == [pollUnprocessed(P) EXCEPT !.P = P]

\* const a = partition.pollUnprocessed() in the while(true) loop of minimise
pollStep(P) == pollUnprocessed(P)

\* the number of states of the DFA being minimised
RunN == Len(minimising.dfa.nodes)

\* for(const d of this.computeAcceptingStates()) { partition.refine(d); }: one round
MinimiseRefineAccepting ==
    /\ minimising.pc = "accepting"
    /\ part' = refine(part, At(computeAcceptingStates(minimising.dfa), minimising.k))
    /\ minimising' = [minimising EXCEPT !.from = minimising.pc, !.before = part, !.k = @ + 1,
                          !.pc = IF minimising.k + 1 >= minimising.dfa.acceptCount THEN "poll" ELSE "accepting"]
    /\ edits' = edits + 1
    /\ UNCHANGED <<stateVars, last, idMap, sampleSet>>

\* const a = partition.pollUnprocessed(); if(a === undefined) { break; }
MinimisePoll ==
    /\ minimising.pc = "poll"
    /\ part' = pollStep(part).P
    /\ minimising' = IF ~pollStep(part).found
              THEN [minimising EXCEPT !.from = minimising.pc, !.before = part, !.pc = "quotient"]
              ELSE [minimising EXCEPT !.from = minimising.pc, !.before = part,
                               !.pc = IF minimising.dfa.alphabetSize = 0 THEN "poll" ELSE "letter",
                               !.a = pollStep(part).a, !.c = 0, !.polls = @ + 1]
    /\ edits' = edits + 1
    /\ UNCHANGED <<stateVars, last, idMap, sampleSet>>

\* the partition after partition.refine(x) for the letter and block at hand
LetterRefined ==
    refine(part, PreimageOf(inverseTransitions(minimising.dfa), RunN, minimising.c, minimising.a))

\* one round of for(let c = 0; c < alphabetSize; ++c): build x, refine, and
\* return this when the partition has n subsets
MinimiseLetter ==
    /\ minimising.pc = "letter"
    /\ part' = LetterRefined
    /\ minimising' = IF countSubsets(LetterRefined) = RunN
              THEN [minimising EXCEPT !.from = minimising.pc, !.before = part,
                               !.pc = "done", !.result = "this", !.size = RunN]
              ELSE [minimising EXCEPT !.from = minimising.pc, !.before = part, !.c = @ + 1,
                               !.pc = IF minimising.c + 1 >= minimising.dfa.alphabetSize THEN "poll" ELSE "letter"]
    /\ edits' = edits + 1
    /\ UNCHANGED <<stateVars, last, idMap, sampleSet>>

\* after the loop: build reps and repNodes and return the new DFA
MinimiseReturn ==
    /\ minimising.pc = "quotient"
    /\ minimising' = [minimising EXCEPT !.from = minimising.pc, !.before = part,
                          !.pc = "done", !.result = "quotient",
                          !.size = Len(quotient(minimising.dfa, part).nodes)]
    /\ edits' = edits + 1
    /\ UNCHANGED <<stateVars, last, idMap, sampleSet, part>>

\* dfa.minimise() called on one of the DFAs: new Partition(n) made, nothing refined yet
InitMinimise ==
    /\ cat = 1
    /\ width = 1
    /\ height = 1
    /\ Constructed
    /\ idMap = IDMapEmpty
    /\ sampleSet = SampleableSet
    /\ \E dfa \in SmallDFAs \cup CompiledDFAs :
           /\ minimising = [pc |-> IF dfa.acceptCount = 0 THEN "poll" ELSE "accepting", dfa |-> dfa,
                     k |-> 0, a |-> <<>>, c |-> 0, polls |-> 0, result |-> "none", size |-> 0,
                     from |-> "called", before |-> Partition(Len(dfa.nodes))]
           /\ part = Partition(Len(dfa.nodes))

NextMinimise == MinimiseRefineAccepting \/ MinimisePoll \/ MinimiseLetter \/ MinimiseReturn

\* a step of the call, told by the count of steps: one can be taken until the
\* call has returned, and every step of NextMinimise is one
MinimiseStep == minimising.pc # "done" /\ edits' = edits + 1

\* the call runs on one thread and nothing else can take a step, so a step
\* that can be taken is taken
SpecMinimise == InitMinimise /\ [][NextMinimise]_vars /\ WF_edits(MinimiseStep)

\* the number of blocks whose flag is set
FlagCount(P) == Cardinality({b \in Flagged(P) : b.flag})

\* what the loop can still do: a flag to clear for every flagged block and for
\* every split still possible, and the split itself
Measure(P) == FlagCount(P) + 2 * (Len(P.arr) - countSubsets(P))

\* what the last step of the call did to the partition: a poll that returned a
\* block cleared one flag and split nothing, a poll that returned none found no
\* flag set, a refine in the loop set one flag for each block it split and no
\* other, and the partition has at most n blocks
StepRule ==
    LET before == minimising.before
    IN  /\ countSubsets(part) <= Len(part.arr)
        /\ Measure(part) <= Measure(before)
        /\ (minimising.from = "poll" /\ minimising.pc # "quotient") =>
               /\ FlagCount(part) = FlagCount(before) - 1
               /\ countSubsets(part) = countSubsets(before)
               /\ Measure(part) < Measure(before)
        /\ (minimising.from = "poll" /\ minimising.pc = "quotient") => FlagCount(before) = 0
        /\ minimising.from = "letter" =>
               FlagCount(part) - FlagCount(before) = countSubsets(part) - countSubsets(before)

\* C37: DFA.minimise terminates: every pollUnprocessed that returns a block
\* clears one flag and splits nothing, every refine in the loop sets one flag for
\* each block it splits and no other, the partition never has more than n blocks,
\* and the call eventually returns, by the shortcut or after the worklist is empty
MinimiseTerminates == []StepRule /\ <>(minimising.pc = "done")

\* a call that returned the quotient after its worklist ran empty, having polled
\* more than twice and split blocks inside the loop
MinimiseTerminatesWitness ==
    /\ minimising.pc = "done"
    /\ minimising.result = "quotient"
    /\ minimising.polls > 2
    /\ minimising.size > 2
    /\ minimising.size < RunN
    /\ FlagCount(part) = 0


\* ---------------------------------------------------------------------
\* ISet keys
\* ---------------------------------------------------------------------

MaxArrayLen == 3

\* elements in the first word, at bit 31 of it, and in the second word
KeyElements == {0, 31, 32}

\* the arrays a key is computed for: any order, with duplicates
KeyArrays == UNION {[1..n -> KeyElements] : n \in 0..MaxArrayLen}

\* the domain sizes an ISet of the elements of xs may be declared with
DomainSizes(xs) == {d \in {ArrayMax1(xs), 2 * WordBits, 2 * WordBits + 1} : d >= ArrayMax1(xs)}

\* what is remembered of a key computed earlier: how it was computed, the
\* elements and the key
Earlier == IF last.op \in {"toBigInt", "arrayToBigInt"}
           THEN <<[op |-> last.op, domainSize |-> last.domainSize,
                   members |-> last.members, key |-> last.key]>>
           ELSE <<>>

\* ISet.toBigInt(ISet.of(domainSize, xs))
ToBigInt ==
    \E xs \in KeyArrays : \E domainSize \in DomainSizes(xs) :
        /\ last' = [op |-> "toBigInt", xs |-> xs, domainSize |-> domainSize,
                    members |-> Range(xs), key |-> ISetToBigInt(ISetOf(domainSize, xs)),
                    than |-> Earlier]
        /\ UNCHANGED <<stateVars, edits, held>>

\* ISet.arrayToBigInt(xs)
ArrayToBigInt ==
    \E xs \in KeyArrays :
        /\ last' = [op |-> "arrayToBigInt", xs |-> xs, domainSize |-> ArrayMax1(xs),
                    members |-> Range(xs), key |-> ISetArrayToBigInt(xs),
                    than |-> Earlier]
        /\ UNCHANGED <<stateVars, edits, held>>

InitISet == Init /\ cat = 1 /\ width = 1 /\ height = 1

NextISet == ToBigInt \/ ArrayToBigInt

SpecISet == InitISet /\ [][NextISet]_vars

Interned(dfa) ==
    LET states == 0..(DFASize(dfa) - 1)
        ids(s) == Range(getAcceptIDs(dfa, s))
    IN  /\ \A s \in states :
               /\ getAcceptSetID(dfa, s) \in 0..(IDMapSize(dfa.acceptSetMap) - 1)
               /\ ids(s) = Range(IDMapGetByID(dfa.acceptSetMap, getAcceptSetID(dfa, s)))
        /\ \A s, t \in states :
               getAcceptSetID(dfa, s) = getAcceptSetID(dfa, t) <=> ids(s) = ids(t)

\* the entry of the diff table for the accept sets of two states holds the
\* accept IDs of the first state that the second does not have
DiffsAgree(pm) ==
    \A pState, qState \in 0..(DFASize(pm.colDFA) - 1) :
        Range(getAcceptSetDiff(pm, pState, qState))
            = Range(getAcceptIDs(pm.colDFA, pState)) \ Range(getAcceptIDs(pm.colDFA, qState))

\* C39: in every compiled DFA, before and after minimisation, the accept IDs of
\* a state are the elements of the set stored in acceptSetMap under the state's
\* acceptSetID, two states have the same acceptSetID exactly when they have the
\* same accept IDs, and so each entry of the matcher's diff table is the
\* difference of the accept IDs of the states it is looked up for
AcceptSetsInterned ==
    /\ Interned(matcher.rowDFA)
    /\ Interned(matcher.colDFA)
    /\ DiffsAgree(matcher)
    /\ last.op = "minimise" => (Interned(last.input) /\ Interned(last.output))

\* a minimise call that merged states: two states of its input share a nonempty
\* accept set, and the output has fewer states than the input and still a state
\* with that accept set
AcceptSetsInternedWitness ==
    /\ last.op = "minimise"
    /\ DFASize(last.output) < DFASize(last.input)
    /\ \E s, t \in 0..(DFASize(last.input) - 1) :
           /\ s # t
           /\ getAcceptIDs(last.input, s) # <<>>
           /\ getAcceptSetID(last.input, s) = getAcceptSetID(last.input, t)
           /\ \E u \in 0..(DFASize(last.output) - 1) :
                  getAcceptSetID(last.output, u) = getAcceptSetID(last.input, s)

====
